---------------------------- MODULE Spec2Model ----------------------------
(***************************************************************************)
(* Document segmentation and deduplication engine: the chunk builder       *)
(* (parsers/chunker.py), the boundary parser (parsers/qa_parser.py), the   *)
(* quality gate (quality/validator.py), the deduplicator                   *)
(* (quality/deduplicator.py) and the question-bank step of the parsing     *)
(* script (scripts/03_parse_qa.py); and the interview engine               *)
(* (core/interview_engine.py) over its question repository.                *)
(*                                                                         *)
(* Text is a sequence of characters, each a string.  Every component has   *)
(* its own specification (SpecForceSplit, SpecChunker, SpecParser,         *)
(* SpecDedup, SpecValidator, SpecBank, SpecSimilar, SpecInterview, ...);   *)
(* the variables of the others stay Idle.                                  *)
(***************************************************************************)
EXTENDS Integers, Sequences, FiniteSets, TLC

VARIABLES
    config,         \* ChunkerConfig: [max_chunk_size, overlap_size]
    chunk_counter,  \* Chunker._chunk_counter
    fs,             \* the frame of one Chunker._force_split call
    ck,             \* the client of one Chunker, or one Chunk and its dict
    ps,             \* one QAParser.parse call: its text and result
    dd,             \* one Deduplicator run: its input and results
    vl,             \* one QualityValidator run: its input and results
    iv              \* one InterviewEngine, its question repository and session

vars == <<config, chunk_counter, fs, ck, ps, dd, vl, iv>>

Idle == [pc |-> "idle"]

-----------------------------------------------------------------------------
(* Characters and Python's string primitives *)

NL == "\n"
SP == " "

\* str.isspace() on the characters the model uses
Whitespace == {NL, SP}

\* Characters outside ASCII are written by their code point.
IdeoStop == "u3002"     \* the ideographic full stop
FullExcl == "uFF01"     \* the fullwidth exclamation mark
FullQuest == "uFF1F"    \* the fullwidth question mark

\* the sentence terminators of _get_overlap_text's split
SentenceTerminators == {IdeoStop, FullExcl, FullQuest, ".", "!", "?"}

\* the characters _force_split cuts after: the terminators and the newline
ForceTerminators == SentenceTerminators \cup {NL}

MaxOf(S) == CHOOSE x \in S : \A y \in S : y <= x
MinOf(S) == CHOOSE x \in S : \A y \in S : x <= y
Max2(a, b) == IF a >= b THEN a ELSE b
Min2(a, b) == IF a <= b THEN a ELSE b

\* s[a:b] with Python's clipping and negative offsets (a, b are 0-based)
PySlice(s, a, b) ==
    LET n  == Len(s)
        lo == IF a < 0 THEN Max2(a + n, 0) ELSE Min2(a, n)
        hi == IF b < 0 THEN Max2(b + n, 0) ELSE Min2(b, n)
    IN  IF lo >= hi THEN <<>> ELSE SubSeq(s, lo + 1, hi)

\* s[i] with Python's negative offsets (0-based)
PyIndex(s, i) == IF i < 0 THEN s[i + Len(s) + 1] ELSE s[i + 1]

\* str.strip()
Strip(s) ==
    LET keep == {i \in 1..Len(s) : s[i] \notin Whitespace}
    IN  IF keep = {} THEN <<>> ELSE SubSeq(s, MinOf(keep), MaxOf(keep))

\* all sequences over S of length at most n
SeqsUpTo(S, n) == UNION {[1..k -> S] : k \in 0..n}

-----------------------------------------------------------------------------
(* Chunk ids *)

\* f"{n:06d}": at least six decimal digits, most significant first
RECURSIVE Digits(_)
Digits(n) == IF n < 10 THEN <<n>> ELSE Append(Digits(n \div 10), n % 10)

Pad06(n) ==
    LET d == Digits(n)
    IN  IF Len(d) >= 6 THEN d ELSE [i \in 1..(6 - Len(d)) |-> 0] \o d

\* Chunker._generate_chunk_id, given the counter already incremented
ChunkId(prefix, n) == [prefix |-> prefix, suffix |-> Pad06(n)]

NoMeta == [k \in {} |-> TRUE]

-----------------------------------------------------------------------------
(* Chunker._force_split *)

\* One iteration of the while loop at slice start `start`: the cut `end`, the
\* slice text[start:end] and the start of the next iteration.
ForceSplitIter(text, start, max_size, overlap) ==
    LET end0 == start + max_size
        stop == Max2(start + (max_size \div 2), start)
        hits == IF end0 < Len(text)
                THEN {i \in (stop + 1)..end0 : PyIndex(text, i) \in ForceTerminators}
                ELSE {}
        end  == IF hits = {} THEN end0 ELSE MaxOf(hits) + 1
    IN  [end |-> end,
         chunk_text |-> PySlice(text, start, end),
         next |-> IF end < Len(text) THEN end - overlap ELSE end]

\* The Chunk one iteration appends; n is the counter after the increment.
ForceSplitChunk(chunk_text, n) ==
    [chunk_id |-> ChunkId("text", n),
     content |-> Strip(chunk_text),
     question |-> <<>>, answer |-> <<>>,
     chunk_type |-> "text",
     metadata |-> [k \in {"force_split"} |-> TRUE]]

\* The whole call from slice start `start` with the counter at n: the chunks
\* appended, or hung when the loop never ends.  The loop's only state is
\* `start`, which stays in -overlap..Len(text)-1 while the loop runs, so a run
\* of more than Len(text) + overlap + 1 iterations repeats a start for ever.
RECURSIVE ForceSplitFrom(_, _, _, _, _, _)
ForceSplitFrom(text, start, max_size, overlap, n, fuel) ==
    IF ~(start < Len(text)) THEN [chunks |-> <<>>, hung |-> FALSE]
    ELSE IF fuel = 0 THEN [chunks |-> <<>>, hung |-> TRUE]
    ELSE LET it   == ForceSplitIter(text, start, max_size, overlap)
             rest == ForceSplitFrom(text, it.next, max_size, overlap, n + 1, fuel - 1)
         IN  [chunks |-> <<ForceSplitChunk(it.chunk_text, n + 1)>> \o rest.chunks,
              hung |-> rest.hung]

ForceSplit(text, max_size, overlap, n) ==
    ForceSplitFrom(text, 0, max_size, overlap, n, Len(text) + overlap + 2)

-----------------------------------------------------------------------------
(* Paragraphs and lines *)

\* The end (0-based, exclusive) of the match of \n\s*\n that starts at offset
\* p, or -1: \s* is greedy, so the match ends with the last newline of the
\* whitespace run that follows p.
BlankSepEnd(text, p) ==
    IF PyIndex(text, p) # NL THEN -1
    ELSE LET n    == Len(text)
             stop == MinOf({j \in (p + 1)..n :
                              j = n \/ PyIndex(text, j) \notin Whitespace})
             nls  == {j \in (p + 1)..(stop - 1) : PyIndex(text, j) = NL}
         IN  IF nls = {} THEN -1 ELSE MaxOf(nls) + 1

\* re.split(r'\n\s*\n', text[from:]): the parts between the separators
RECURSIVE SplitParasFrom(_, _)
SplitParasFrom(text, from) ==
    LET seps == {p \in from..(Len(text) - 1) : BlankSepEnd(text, p) # -1}
    IN  IF seps = {} THEN <<PySlice(text, from, Len(text))>>
        ELSE LET p == MinOf(seps)
             IN  <<PySlice(text, from, p)>> \o SplitParasFrom(text, BlankSepEnd(text, p))

SplitParas(text) == SplitParasFrom(text, 0)

\* the loops' "para = para.strip(); if not para: continue"
StripParas(parts) ==
    SelectSeq([i \in 1..Len(parts) |-> Strip(parts[i])], LAMBDA x : x # <<>>)

\* sep.join(parts)
RECURSIVE Join(_, _)
Join(parts, sep) ==
    IF parts = <<>> THEN <<>>
    ELSE IF Len(parts) = 1 THEN parts[1]
    ELSE parts[1] \o sep \o Join(Tail(parts), sep)

\* re.split on one-character separators: the pieces between them
RECURSIVE SplitOn(_, _)
SplitOn(text, seps) ==
    LET hits == {i \in 1..Len(text) : text[i] \in seps}
    IN  IF hits = {} THEN <<text>>
        ELSE LET i == MinOf(hits)
             IN  <<SubSeq(text, 1, i - 1)>> \o SplitOn(SubSeq(text, i + 1, Len(text)), seps)

\* str.splitlines() for texts whose only line break is \n
SplitLines(text) ==
    LET parts == SplitOn(text, {NL})
    IN  IF parts[Len(parts)] = <<>> THEN SubSeq(parts, 1, Len(parts) - 1) ELSE parts

ParaSep == <<NL, NL>>

-----------------------------------------------------------------------------
(* Chunker.chunk_qa_pairs and _split_long_qa *)

\* "\n\n(xu)\n\n", (xu) being the fullwidth-bracketed mark of a continuation
ContMark == <<NL, NL, "uFF08", "u7EED", "uFF09", NL, NL>>

\* QAPair.full_text and QAPair.char_count
FullText(qa) == qa.question \o ParaSep \o qa.answer
CharCount(qa) == Len(FullText(qa))

QAChunk(n, content, qa, answer, meta) ==
    [chunk_id |-> ChunkId("qa", n), content |-> content,
     question |-> qa.question, answer |-> answer,
     chunk_type |-> "qa", metadata |-> meta]

\* the for loop of _get_overlap_text over reversed(sentences), at sentence k
RECURSIVE OverlapLoop(_, _, _)
OverlapLoop(sentences, k, overlap) ==
    IF k = 0 THEN overlap
    ELSE IF Len(overlap) + Len(sentences[k]) <= config.overlap_size
         THEN OverlapLoop(sentences, k - 1, sentences[k] \o <<IdeoStop>> \o overlap)
         ELSE overlap

GetOverlapText(parts) ==
    IF parts = <<>> THEN <<>>
    ELSE LET last_part == parts[Len(parts)]
         IN  IF Len(last_part) <= config.overlap_size THEN last_part
             ELSE LET sentences == SplitOn(last_part, SentenceTerminators)
                      overlap   == Strip(OverlapLoop(sentences, Len(sentences), <<>>))
                  IN  IF overlap # <<>> THEN overlap
                      ELSE PySlice(last_part, 0 - config.overlap_size, Len(last_part))

\* the loop of _split_long_qa, were it to start the answer parts of a
\* continuation chunk with the overlap text
RECURSIVE SplitLongQALoopOverlapInAnswer(_, _, _, _, _, _)
SplitLongQALoopOverlapInAnswer(qa, paras, current_content, parts, chunks, n) ==
    IF paras = <<>>
    THEN IF parts # <<>>
         THEN Append(chunks,
                     QAChunk(n + Len(chunks) + 1, Strip(current_content), qa,
                             Join(parts, ParaSep),
                             [is_split |-> Len(chunks) > 0,
                              part |-> IF chunks # <<>> THEN Len(chunks) + 1 ELSE 0]))
         ELSE chunks
    ELSE LET para == Head(paras)
             test_content == current_content \o para
         IN  IF Len(test_content) > config.max_chunk_size /\ parts # <<>>
             THEN LET chunk == QAChunk(n + Len(chunks) + 1, Strip(current_content), qa,
                                       Join(parts, ParaSep),
                                       [is_split |-> TRUE, part |-> Len(chunks) + 1])
                      overlap == GetOverlapText(parts)
                  IN  SplitLongQALoopOverlapInAnswer(
                          qa, Tail(paras),
                          qa.question \o ContMark \o overlap \o para \o ParaSep,
                          IF overlap # <<>> THEN <<overlap, para>> ELSE <<para>>,
                          Append(chunks, chunk), n)
             ELSE SplitLongQALoopOverlapInAnswer(
                      qa, Tail(paras), current_content \o para \o ParaSep,
                      Append(parts, para), chunks, n)

\* The paragraph loop of _split_long_qa and the final save; n is the counter
\* on entry.  The metadata value part = None is written 0 (parts count from 1).
RECURSIVE SplitLongQALoop(_, _, _, _, _, _)
SplitLongQALoop(qa, paras, current_content, parts, chunks, n) ==
    IF paras = <<>>
    THEN IF parts # <<>>
         THEN Append(chunks,
                     QAChunk(n + Len(chunks) + 1, Strip(current_content), qa,
                             Join(parts, ParaSep),
                             [is_split |-> Len(chunks) > 0,
                              part |-> IF chunks # <<>> THEN Len(chunks) + 1 ELSE 0]))
         ELSE chunks
    ELSE LET para == Head(paras)
             test_content == current_content \o para
         IN  IF Len(test_content) > config.max_chunk_size /\ parts # <<>>
             THEN LET chunk == QAChunk(n + Len(chunks) + 1, Strip(current_content), qa,
                                       Join(parts, ParaSep),
                                       [is_split |-> TRUE, part |-> Len(chunks) + 1])
                      overlap == GetOverlapText(parts)
                  IN  SplitLongQALoop(qa, Tail(paras),
                                      qa.question \o ContMark \o overlap \o para \o ParaSep,
                                      <<para>>, Append(chunks, chunk), n)
             ELSE SplitLongQALoop(qa, Tail(paras), current_content \o para \o ParaSep,
                                  Append(parts, para), chunks, n)

SplitLongQA(qa, n) ==
    SplitLongQALoop(qa, StripParas(SplitParas(qa.answer)), qa.question \o ParaSep,
                    <<>>, <<>>, n)

\* chunk_qa_pairs: the chunks of the pairs in order; n is the counter on entry
RECURSIVE ChunkQAPairs(_, _)
ChunkQAPairs(qa_pairs, n) ==
    IF qa_pairs = <<>> THEN <<>>
    ELSE LET qa  == Head(qa_pairs)
             out == IF CharCount(qa) > config.max_chunk_size
                    THEN SplitLongQA(qa, n)
                    ELSE <<QAChunk(n + 1, FullText(qa), qa, qa.answer, NoMeta)>>
         IN  out \o ChunkQAPairs(Tail(qa_pairs), n + Len(out))

-----------------------------------------------------------------------------
(* Chunker.chunk_plain_text and chunk_markdown *)

TextChunk(prefix, n, content, meta) ==
    [chunk_id |-> ChunkId(prefix, n), content |-> content,
     question |-> <<>>, answer |-> <<>>,
     chunk_type |-> "text", metadata |-> meta]

\* the overlap of chunk_plain_text: current_content[-overlap_size:], or ""
PlainOverlap(current_content) ==
    IF Len(current_content) > config.overlap_size
    THEN PySlice(current_content, 0 - config.overlap_size, Len(current_content))
    ELSE <<>>

\* The paragraph loop of chunk_plain_text and the final save: the chunks and
\* whether a _force_split call never returned.
RECURSIVE PlainLoop(_, _, _, _)
PlainLoop(paras, current_content, chunks, n) ==
    IF paras = <<>>
    THEN [chunks |-> IF Strip(current_content) # <<>>
                     THEN Append(chunks, TextChunk("text", n + Len(chunks) + 1,
                                                   Strip(current_content), NoMeta))
                     ELSE chunks,
          hung |-> FALSE]
    ELSE LET para == Head(paras)
         IN  IF Len(current_content) + Len(para) > config.max_chunk_size
             THEN IF current_content # <<>>
                  THEN PlainLoop(Tail(paras),
                                 PlainOverlap(current_content) \o ParaSep \o para \o ParaSep,
                                 Append(chunks, TextChunk("text", n + Len(chunks) + 1,
                                                          Strip(current_content), NoMeta)),
                                 n)
                  ELSE LET sub == ForceSplit(para, config.max_chunk_size,
                                             config.overlap_size, n + Len(chunks))
                       IN  IF sub.hung THEN [chunks |-> chunks, hung |-> TRUE]
                           ELSE PlainLoop(Tail(paras), <<>>, chunks \o sub.chunks, n)
             ELSE PlainLoop(Tail(paras), current_content \o para \o ParaSep, chunks, n)

ChunkPlainText(text, n) ==
    IF Strip(text) = <<>> THEN [chunks |-> <<>>, hung |-> FALSE]
    ELSE PlainLoop(StripParas(SplitParas(text)), <<>>, <<>>, n)

IsHeading(line) == LET t == Strip(line) IN t # <<>> /\ t[1] = "#"

\* The line loop of chunk_markdown: the (title, body) sections; no title is <<>>.
RECURSIVE MdSections(_, _, _, _)
MdSections(lines, current_title, current_lines, sections) ==
    LET flushed == IF current_lines # <<>>
                   THEN Append(sections, [title |-> current_title,
                                          body |-> Strip(Join(current_lines, <<NL>>))])
                   ELSE sections
    IN  IF lines = <<>> THEN flushed
        ELSE IF IsHeading(Head(lines))
             THEN MdSections(Tail(lines), Strip(Head(lines)), <<>>, flushed)
             ELSE MdSections(Tail(lines), current_title,
                             Append(current_lines, Head(lines)), sections)

\* sub.metadata['md_title'] = title; sub.metadata['md_section'] = True
TagSection(sub, title) ==
    [sub EXCEPT !.metadata = [force_split |-> TRUE, md_title |-> title,
                              md_section |-> TRUE]]

\* the section loop of chunk_markdown
RECURSIVE MdLoop(_, _, _)
MdLoop(sections, chunks, n) ==
    IF sections = <<>> THEN [chunks |-> chunks, hung |-> FALSE]
    ELSE LET title == Head(sections).title
             body  == Head(sections).body
             section_text == IF title # <<>> THEN Strip(title \o ParaSep \o body)
                             ELSE Strip(body)
         IN  IF section_text = <<>> THEN MdLoop(Tail(sections), chunks, n)
             ELSE IF Len(section_text) > config.max_chunk_size
             THEN LET sub == ForceSplit(section_text, config.max_chunk_size,
                                        config.overlap_size, n + Len(chunks))
                      tagged == IF title # <<>>
                                THEN [i \in 1..Len(sub.chunks) |->
                                         TagSection(sub.chunks[i], title)]
                                ELSE sub.chunks
                  IN  IF sub.hung THEN [chunks |-> chunks, hung |-> TRUE]
                      ELSE MdLoop(Tail(sections), chunks \o tagged, n)
             ELSE MdLoop(Tail(sections),
                         Append(chunks,
                                TextChunk("md", n + Len(chunks) + 1, section_text,
                                          IF title # <<>> THEN [md_title |-> title]
                                          ELSE NoMeta)),
                         n)

ChunkMarkdown(text, n) ==
    IF Strip(text) = <<>> THEN [chunks |-> <<>>, hung |-> FALSE]
    ELSE LET sections == MdSections(SplitLines(text), <<>>, <<>>, <<>>)
         IN  IF Len(sections) = 1 /\ sections[1].title = <<>>
             THEN ChunkPlainText(text, n)
             ELSE MdLoop(sections, <<>>, n)

-----------------------------------------------------------------------------
(* SpecForceSplit: one _force_split call, one loop iteration per step *)

MaxFsChunkSize == 5     \* max_chunk_size ranges over 1..MaxFsChunkSize
MaxFsLen == 6           \* the text is at most this long
MaxFsIters == 8         \* the loop is followed for at most this many iterations

FsAlphabet == {"a", ".", SP}

\* the consistent configurations: 0 <= overlap_size < max_chunk_size
FsConfigs ==
    {c \in [max_chunk_size : 1..MaxFsChunkSize, overlap_size : 0..(MaxFsChunkSize - 1)] :
        c.overlap_size < c.max_chunk_size}

InitForceSplit ==
    /\ config \in FsConfigs
    /\ chunk_counter = 0
    /\ \E t \in SeqsUpTo(FsAlphabet, MaxFsLen) :
          fs = [pc |-> "loop", text |-> t, start |-> 0, end |-> 0, chunks |-> <<>>]
    /\ ck = Idle /\ ps = Idle /\ dd = Idle /\ vl = Idle /\ iv = Idle

\* while start < len(text): one pass through the loop body
ForceSplitLoop ==
    /\ fs.pc = "loop"
    /\ fs.start < Len(fs.text)
    /\ chunk_counter < MaxFsIters
    /\ LET it == ForceSplitIter(fs.text, fs.start, config.max_chunk_size,
                                config.overlap_size)
       IN  /\ chunk_counter' = chunk_counter + 1
           /\ fs' = [fs EXCEPT !.start = it.next, !.end = it.end,
                               !.chunks = Append(@, ForceSplitChunk(it.chunk_text,
                                                                    chunk_counter + 1))]
    /\ UNCHANGED <<config, ck, ps, dd, vl, iv>>

\* the loop condition fails: return chunks
ForceSplitReturn ==
    /\ fs.pc = "loop"
    /\ ~(fs.start < Len(fs.text))
    /\ fs' = [fs EXCEPT !.pc = "done"]
    /\ UNCHANGED <<config, chunk_counter, ck, ps, dd, vl, iv>>

NextForceSplit == ForceSplitLoop \/ ForceSplitReturn

SpecForceSplit == InitForceSplit /\ [][NextForceSplit]_vars

\* C3: with 0 <= overlap_size < max_chunk_size, every iteration of the
\* _force_split loop moves the slice start strictly forward (so the loop ends).
C3_StartStrictlyIncreases ==
    [][(fs.pc = "loop" /\ fs'.pc = "loop" /\ chunk_counter' # chunk_counter)
         => fs'.start > fs.start]_vars

-----------------------------------------------------------------------------
(* SpecChunker: one Chunker, its counter, and one call per step *)

MaxChunkSize == 5       \* max_chunk_size ranges over 1..MaxChunkSize
MaxTextLen == 5         \* the input text is at most this long

CkAlphabet == {"a", ".", NL, "#"}
CkQuestions == {<<"q">>}

\* the consistent configurations: 0 <= overlap_size < max_chunk_size
CkConfigs ==
    {c \in [max_chunk_size : 1..MaxChunkSize, overlap_size : 0..(MaxChunkSize - 1)] :
        c.overlap_size < c.max_chunk_size}

\* A pair as the parser makes it: question and answer stripped and not empty.
QAPairOf(q, t) ==
    [question |-> q, answer |-> t, question_num |-> <<>>, start_pos |-> 0,
     end_pos |-> 0]

\* The client of one Chunker: the text and the pairs it passes, the result of
\* its last call (chunks), the ids the Chunker made since its construction or
\* last reset, each with the operation that made it (emitted), and the
\* number of calls the client makes between two resets (quota, budget).
CkClient(t, q, quota) ==
    [pc |-> "ready", op |-> "none", text |-> t,
     qa_pairs |-> IF t # <<>> /\ Strip(t) = t THEN <<QAPairOf(q, t)>> ELSE <<>>,
     chunks |-> <<>>, emitted |-> <<>>, quota |-> quota, budget |-> quota]

InitChunker ==
    /\ config \in CkConfigs
    /\ chunk_counter = 0
    /\ \E t \in SeqsUpTo(CkAlphabet, MaxTextLen), q \in CkQuestions :
          ck = CkClient(t, q, 1)
    /\ fs = Idle /\ ps = Idle /\ dd = Idle /\ vl = Idle /\ iv = Idle

\* the ids of chunks, each with the operation op that made it
EmittedBy(op, chunks) ==
    [i \in 1..Len(chunks) |-> [chunk_id |-> chunks[i].chunk_id, op |-> op]]

\* the client after a call of op that returned chunks (or never returned)
AfterCall(op, chunks, hung) ==
    [ck EXCEPT !.pc = IF hung THEN "hung" ELSE "returned", !.op = op, !.chunks = chunks,
               !.emitted = ck.emitted \o EmittedBy(op, chunks),
               !.budget = ck.budget - 1]

\* chunks = chunker.chunk_qa_pairs(qa_pairs)
CallChunkQAPairs ==
    /\ ck.pc \in {"ready", "returned"} /\ ck.budget > 0
    /\ \E out \in {ChunkQAPairs(ck.qa_pairs, chunk_counter)} :
          /\ chunk_counter' = chunk_counter + Len(out)
          /\ ck' = AfterCall("qa", out, FALSE)
    /\ UNCHANGED <<config, fs, ps, dd, vl, iv>>

\* chunks = chunker.chunk_plain_text(text); a call that never returns is hung
CallChunkPlainText ==
    /\ ck.pc \in {"ready", "returned"} /\ ck.budget > 0
    /\ \E out \in {ChunkPlainText(ck.text, chunk_counter)} :
          /\ chunk_counter' = chunk_counter + Len(out.chunks)
          /\ ck' = AfterCall("plain", out.chunks, out.hung)
    /\ UNCHANGED <<config, fs, ps, dd, vl, iv>>

\* chunks = chunker.chunk_markdown(text)
CallChunkMarkdown ==
    /\ ck.pc \in {"ready", "returned"} /\ ck.budget > 0
    /\ \E out \in {ChunkMarkdown(ck.text, chunk_counter)} :
          /\ chunk_counter' = chunk_counter + Len(out.chunks)
          /\ ck' = AfterCall("markdown", out.chunks, out.hung)
    /\ UNCHANGED <<config, fs, ps, dd, vl, iv>>

\* chunker.reset_counter(), between independent runs
ResetCounter ==
    /\ ck.pc = "returned"
    /\ chunk_counter' = 0
    /\ ck' = [ck EXCEPT !.pc = "ready", !.op = "none", !.chunks = <<>>,
                        !.emitted = <<>>, !.budget = ck.quota]
    /\ UNCHANGED <<config, fs, ps, dd, vl, iv>>

NextChunker ==
    CallChunkQAPairs \/ CallChunkPlainText \/ CallChunkMarkdown \/ ResetCounter

SpecChunker == InitChunker /\ [][NextChunker]_vars

\* C1: every chunk returned by chunk_qa_pairs, chunk_plain_text and
\* chunk_markdown has len(content) <= max_chunk_size + overlap_size.
C1_ChunkLengthBounded ==
    ck.pc = "returned" =>
        \A i \in 1..Len(ck.chunks) :
            Len(ck.chunks[i].content) <= config.max_chunk_size + config.overlap_size

-----------------------------------------------------------------------------
(* Deduplicator: exact dedup by content hash *)

\* str.lower() on the letters the model uses
Lower(c) == CASE c = "A" -> "a" [] c = "B" -> "b" [] OTHER -> c

\* the characters [^\w\s\u4e00-\u9fff] matches among those the model uses
Punctuation == SentenceTerminators \cup {"#", ",", "uFF08", "uFF09"}

\* re.sub(r'\s+', ' ', text): every whitespace run becomes one space
RECURSIVE CollapseWhitespace(_)
CollapseWhitespace(text) ==
    IF text = <<>> THEN <<>>
    ELSE IF Head(text) \in Whitespace
         THEN LET rest == CollapseWhitespace(Tail(text))
              IN  IF Len(text) > 1 /\ text[2] \in Whitespace THEN rest
                  ELSE <<SP>> \o rest
         ELSE <<Head(text)>> \o CollapseWhitespace(Tail(text))

\* Deduplicator._normalize_text
NormalizeForDedup(text) ==
    LET lowered   == [i \in 1..Len(text) |-> Lower(text[i])]
        collapsed == CollapseWhitespace(lowered)
        unpunct   == SelectSeq(collapsed, LAMBDA c : c \notin Punctuation)
    IN  Strip(unpunct)

\* Deduplicator._compute_hash: the MD5 digest of the normalized text, taken
\* as collision-free, so the digest is written as the text it is a digest of.
ComputeHash(text) == NormalizeForDedup(text)

\* The loop of _exact_dedup over the chunks left, with seen_hashes (a function
\* from hash to chunk), unique_chunks and duplicates.
RECURSIVE ExactDedupLoop(_, _, _, _)
ExactDedupLoop(chunks, seen_hashes, unique_chunks, duplicates) ==
    IF chunks = <<>>
    THEN [unique_chunks |-> unique_chunks, duplicates |-> duplicates]
    ELSE LET chunk == Head(chunks)
             content_hash == ComputeHash(chunk.content)
         IN  IF content_hash \in DOMAIN seen_hashes
             THEN LET existing == seen_hashes[content_hash]
                  IN  IF Len(chunk.content) > Len(existing.content)
                      THEN ExactDedupLoop(
                               Tail(chunks),
                               [seen_hashes EXCEPT ![content_hash] = chunk],
                               Append(SelectSeq(unique_chunks,
                                                LAMBDA c : c.chunk_id # existing.chunk_id),
                                      chunk),
                               Append(duplicates, <<existing.chunk_id, chunk.chunk_id>>))
                      ELSE ExactDedupLoop(
                               Tail(chunks), seen_hashes, unique_chunks,
                               Append(duplicates, <<chunk.chunk_id, existing.chunk_id>>))
             ELSE ExactDedupLoop(Tail(chunks),
                                 (content_hash :> chunk) @@ seen_hashes,
                                 Append(unique_chunks, chunk), duplicates)

\* _exact_dedup with the replaced chunk left in unique_chunks
RECURSIVE ExactDedupLoopKeepsReplaced(_, _, _, _)
ExactDedupLoopKeepsReplaced(chunks, seen_hashes, unique_chunks, duplicates) ==
    IF chunks = <<>>
    THEN [unique_chunks |-> unique_chunks, duplicates |-> duplicates]
    ELSE LET chunk == Head(chunks)
             content_hash == ComputeHash(chunk.content)
         IN  IF content_hash \in DOMAIN seen_hashes
             THEN LET existing == seen_hashes[content_hash]
                  IN  IF Len(chunk.content) > Len(existing.content)
                      THEN ExactDedupLoopKeepsReplaced(
                               Tail(chunks),
                               [seen_hashes EXCEPT ![content_hash] = chunk],
                               Append(unique_chunks, chunk),
                               Append(duplicates, <<existing.chunk_id, chunk.chunk_id>>))
                      ELSE ExactDedupLoopKeepsReplaced(
                               Tail(chunks), seen_hashes, unique_chunks,
                               Append(duplicates, <<chunk.chunk_id, existing.chunk_id>>))
             ELSE ExactDedupLoopKeepsReplaced(Tail(chunks),
                                              (content_hash :> chunk) @@ seen_hashes,
                                              Append(unique_chunks, chunk), duplicates)

ExactDedupKeepsReplaced(chunks) == ExactDedupLoopKeepsReplaced(chunks, <<>>, <<>>, <<>>)

\* _exact_dedup replacing the kept chunk by a later one of equal length
RECURSIVE ExactDedupLoopTieReplaces(_, _, _, _)
ExactDedupLoopTieReplaces(chunks, seen_hashes, unique_chunks, duplicates) ==
    IF chunks = <<>>
    THEN [unique_chunks |-> unique_chunks, duplicates |-> duplicates]
    ELSE LET chunk == Head(chunks)
             content_hash == ComputeHash(chunk.content)
         IN  IF content_hash \in DOMAIN seen_hashes
             THEN LET existing == seen_hashes[content_hash]
                  IN  IF Len(chunk.content) >= Len(existing.content)
                      THEN ExactDedupLoopTieReplaces(
                               Tail(chunks),
                               [seen_hashes EXCEPT ![content_hash] = chunk],
                               Append(SelectSeq(unique_chunks,
                                                LAMBDA c : c.chunk_id # existing.chunk_id),
                                      chunk),
                               Append(duplicates, <<existing.chunk_id, chunk.chunk_id>>))
                      ELSE ExactDedupLoopTieReplaces(
                               Tail(chunks), seen_hashes, unique_chunks,
                               Append(duplicates, <<chunk.chunk_id, existing.chunk_id>>))
             ELSE ExactDedupLoopTieReplaces(Tail(chunks),
                                            (content_hash :> chunk) @@ seen_hashes,
                                            Append(unique_chunks, chunk), duplicates)

ExactDedupTieReplaces(chunks) == ExactDedupLoopTieReplaces(chunks, <<>>, <<>>, <<>>)

\* _exact_dedup recording no pair for a kept chunk that a longer one replaces
RECURSIVE ExactDedupLoopSilentReplace(_, _, _, _)
ExactDedupLoopSilentReplace(chunks, seen_hashes, unique_chunks, duplicates) ==
    IF chunks = <<>>
    THEN [unique_chunks |-> unique_chunks, duplicates |-> duplicates]
    ELSE LET chunk == Head(chunks)
             content_hash == ComputeHash(chunk.content)
         IN  IF content_hash \in DOMAIN seen_hashes
             THEN LET existing == seen_hashes[content_hash]
                  IN  IF Len(chunk.content) > Len(existing.content)
                      THEN ExactDedupLoopSilentReplace(
                               Tail(chunks),
                               [seen_hashes EXCEPT ![content_hash] = chunk],
                               Append(SelectSeq(unique_chunks,
                                                LAMBDA c : c.chunk_id # existing.chunk_id),
                                      chunk),
                               duplicates)
                      ELSE ExactDedupLoopSilentReplace(
                               Tail(chunks), seen_hashes, unique_chunks,
                               Append(duplicates, <<chunk.chunk_id, existing.chunk_id>>))
             ELSE ExactDedupLoopSilentReplace(Tail(chunks),
                                              (content_hash :> chunk) @@ seen_hashes,
                                              Append(unique_chunks, chunk), duplicates)

ExactDedupSilentReplace(chunks) == ExactDedupLoopSilentReplace(chunks, <<>>, <<>>, <<>>)

ExactDedup(chunks) == ExactDedupLoop(chunks, <<>>, <<>>, <<>>)

\* Deduplicator.deduplicate: the exact phase; the similarity phase is skipped
Deduplicate(chunks) ==
    LET exact == ExactDedup(chunks)
        similar_dups == <<>>
    IN  [chunks |-> exact.unique_chunks, all_dups |-> exact.duplicates \o similar_dups]

-----------------------------------------------------------------------------
(* SpecDedup: deduplicate on a chunk list, then again on its survivors *)

MaxDedupChunks == 3     \* the input list holds at most this many chunks

\* contents whose hashes collide at equal and at different lengths, or differ
DedupContents ==
    {<<"a">>, <<"A">>, <<"a", ".">>, <<".", "a">>, <<"a", SP, ".", "a">>,
     <<"a", SP, "a">>, <<"b">>, <<>>}

\* chunks as one Chunker run numbers them: ids distinct, in input order
DedupInputs ==
    {[i \in 1..Len(cs) |-> TextChunk("text", i, cs[i], NoMeta)] :
        cs \in SeqsUpTo(DedupContents, MaxDedupChunks)}

InitDedup ==
    /\ \E input \in DedupInputs :
          dd = [pc |-> "loaded", input |-> input, chunks |-> input,
                duplicates |-> <<>>, first |-> <<>>]
    /\ config = Idle /\ chunk_counter = 0
    /\ fs = Idle /\ ck = Idle /\ ps = Idle /\ vl = Idle /\ iv = Idle

\* chunks, duplicates = deduplicator.deduplicate(chunks)
RunDeduplicate ==
    /\ dd.pc = "loaded"
    /\ LET out == Deduplicate(dd.chunks)
       IN  dd' = [dd EXCEPT !.pc = "deduped", !.chunks = out.chunks,
                            !.duplicates = out.all_dups]
    /\ UNCHANGED <<config, chunk_counter, fs, ck, ps, vl, iv>>

\* the stage is run again on its own output
RerunDeduplicate ==
    /\ dd.pc = "deduped"
    /\ LET out == Deduplicate(dd.chunks)
       IN  dd' = [dd EXCEPT !.pc = "rerun", !.chunks = out.chunks,
                            !.duplicates = out.all_dups,
                            !.first = [chunks |-> dd.chunks,
                                       duplicates |-> dd.duplicates]]
    /\ UNCHANGED <<config, chunk_counter, fs, ck, ps, vl, iv>>

NextDedup == RunDeduplicate \/ RerunDeduplicate

SpecDedup == InitDedup /\ [][NextDedup]_vars

HashOf(chunk) == ComputeHash(chunk.content)
IdsOf(chunks) == {chunks[k].chunk_id : k \in 1..Len(chunks)}

\* the place in `input` of the chunk to keep for the class of input[i]: the
\* first of the longest chunks whose hash is that of input[i]
BestOfClass(input, i) ==
    LET class   == {j \in 1..Len(input) : HashOf(input[j]) = HashOf(input[i])}
        longest == {j \in class :
                       \A k \in class : Len(input[k].content) <= Len(input[j].content)}
    IN  MinOf(longest)

\* C4: exact dedup keeps exactly one chunk per class of equal content hash,
\* the longest of the class and the earliest of the equally long; two chunks
\* of identical content leave the first and one removed pair (second, first).
C4_KeepsLongestEarliestOfClass ==
    dd.pc = "deduped" =>
        /\ \A i \in 1..Len(dd.input) :
              LET kept == {k \in 1..Len(dd.chunks) : HashOf(dd.chunks[k]) = HashOf(dd.input[i])}
              IN  /\ Cardinality(kept) = 1
                  /\ \A k \in kept : dd.chunks[k] = dd.input[BestOfClass(dd.input, i)]
        /\ (Len(dd.input) = 2 /\ dd.input[1].content = dd.input[2].content)
              => /\ dd.chunks = <<dd.input[1]>>
                 /\ dd.duplicates = <<<<dd.input[2].chunk_id, dd.input[1].chunk_id>>>>

\* a class of three in which the second, longer chunk replaced the first and
\* the third, as long as the second, did not replace it
C4_Witness ==
    /\ dd.pc = "deduped"
    /\ Len(dd.input) = 3
    /\ dd.chunks = <<dd.input[2]>>
    /\ Len(dd.input[1].content) < Len(dd.input[2].content)
    /\ Len(dd.input[3].content) = Len(dd.input[2].content)
    /\ dd.input[3].content # dd.input[2].content

\* C5: deduplicate run on the survivors of a previous run returns the same
\* list in the same order and no removed pair.
C5_ExactDedupIdempotent ==
    dd.pc = "rerun" => dd.chunks = dd.first.chunks /\ dd.duplicates = <<>>

\* a rerun after a first run that replaced a kept chunk and left two survivors
C5_Witness ==
    /\ dd.pc = "rerun"
    /\ Len(dd.input) = 3
    /\ Len(dd.first.chunks) = 2
    /\ dd.first.chunks[2] = dd.input[3]
    /\ dd.first.duplicates # <<>>

\* C6: every removed pair (removed_id, kept_id) of exact dedup names a
\* survivor as kept_id and a chunk that is no survivor as removed_id.
C6_RemovedPairsNameSurvivor ==
    dd.pc = "deduped" =>
        \A p \in 1..Len(dd.duplicates) :
            /\ dd.duplicates[p][2] \in IdsOf(dd.chunks)
            /\ dd.duplicates[p][1] \notin IdsOf(dd.chunks)

(***************************************************************************)
(* Python floats.  validator.py computes its ratios and the overall score  *)
(* in binary64 (IEEE 754 double, round to nearest, ties to even).  A float *)
(* is written [neg, m, e] for the number (-1)^neg * m * 2^e, m a natural   *)
(* number of at most 53 bits kept as a little-endian sequence of limbs in  *)
(* base 2^15 (so that every intermediate fits the 32-bit integers of the   *)
(* model checker), odd unless the float is zero.  The values that occur    *)
(* are in [-2, 2] and are zero or of magnitude above 2^-80: no overflow,   *)
(* subnormal, infinity or NaN arises.                                      *)
(***************************************************************************)
LimbBits == 15
Base     == 2^LimbBits
MantissaBits == 53

RECURSIVE BTrim(_)
BTrim(a) == IF a = <<>> \/ a[Len(a)] # 0 THEN a ELSE BTrim(SubSeq(a, 1, Len(a) - 1))

RECURSIVE BFromInt(_)
BFromInt(n) == IF n = 0 THEN <<>> ELSE <<n % Base>> \o BFromInt(n \div Base)

BDigit(a, i) == IF i <= Len(a) THEN a[i] ELSE 0

RECURSIVE BAddFrom(_, _, _, _)
BAddFrom(a, b, i, carry) ==
    IF i > Max2(Len(a), Len(b))
    THEN IF carry = 0 THEN <<>> ELSE <<carry>>
    ELSE LET t == BDigit(a, i) + BDigit(b, i) + carry
         IN  <<t % Base>> \o BAddFrom(a, b, i + 1, t \div Base)

BAdd(a, b) == BAddFrom(a, b, 1, 0)

RECURSIVE BSubFrom(_, _, _, _)
BSubFrom(a, b, i, borrow) ==
    IF i > Len(a)
    THEN <<>>
    ELSE LET d == a[i] - BDigit(b, i) - borrow
         IN  IF d < 0 THEN <<d + Base>> \o BSubFrom(a, b, i + 1, 1)
                      ELSE <<d>> \o BSubFrom(a, b, i + 1, 0)

\* a - b for a >= b
BSub(a, b) == BTrim(BSubFrom(a, b, 1, 0))

RECURSIVE BCmpFrom(_, _, _)
BCmpFrom(a, b, i) ==
    IF i = 0 THEN 0
    ELSE IF a[i] < b[i] THEN -1
    ELSE IF a[i] > b[i] THEN 1
    ELSE BCmpFrom(a, b, i - 1)

\* -1, 0 or 1 as a < b, a = b or a > b
BCmp(a, b) ==
    IF Len(a) < Len(b) THEN -1
    ELSE IF Len(a) > Len(b) THEN 1
    ELSE BCmpFrom(a, b, Len(a))

RECURSIVE BMulSmallFrom(_, _, _, _)
BMulSmallFrom(a, d, i, carry) ==
    IF i > Len(a)
    THEN IF carry = 0 THEN <<>> ELSE <<carry>>
    ELSE LET t == a[i] * d + carry
         IN  <<t % Base>> \o BMulSmallFrom(a, d, i + 1, t \div Base)

\* a * d for 0 <= d < Base
BMulSmall(a, d) == IF d = 0 THEN <<>> ELSE BMulSmallFrom(a, d, 1, 0)

BShiftLimbs(a, k) == IF a = <<>> THEN <<>> ELSE [i \in 1..k |-> 0] \o a

RECURSIVE BMulFrom(_, _, _)
BMulFrom(a, b, i) ==
    IF i > Len(b) THEN <<>>
    ELSE BAdd(BShiftLimbs(BMulSmall(a, b[i]), i - 1), BMulFrom(a, b, i + 1))

BMul(a, b) == BMulFrom(a, b, 1)

\* long division by d from the top limb i down, rem the remainder so far
RECURSIVE BDivSmallFrom(_, _, _, _)
BDivSmallFrom(a, d, i, rem) ==
    IF i = 0 THEN <<>>
    ELSE Append(BDivSmallFrom(a, d, i - 1, (rem * Base + a[i]) % d),
                (rem * Base + a[i]) \div d)

RECURSIVE BModSmallFrom(_, _, _, _)
BModSmallFrom(a, d, i, rem) ==
    IF i = 0 THEN rem ELSE BModSmallFrom(a, d, i - 1, (rem * Base + a[i]) % d)

\* quotient and remainder of a by d, 0 < d < Base
BDivSmall(a, d) == BTrim(BDivSmallFrom(a, d, Len(a), 0))
BModSmall(a, d) == BModSmallFrom(a, d, Len(a), 0)

\* a * 2^s
BShl(a, s) == BShiftLimbs(BMulSmall(a, 2^(s % LimbBits)), s \div LimbBits)

\* floor(a / 2^s)
BShr(a, s) ==
    LET k == s \div LimbBits
    IN  IF k >= Len(a) THEN <<>>
        ELSE BDivSmall(SubSeq(a, k + 1, Len(a)), 2^(s % LimbBits))

RECURSIVE IntBitLen(_)
IntBitLen(n) == IF n = 0 THEN 0 ELSE 1 + IntBitLen(n \div 2)

BBitLen(a) == IF a = <<>> THEN 0 ELSE LimbBits * (Len(a) - 1) + IntBitLen(a[Len(a)])

BIsOdd(a) == a # <<>> /\ a[1] % 2 = 1

FZero == [neg |-> FALSE, m |-> <<>>, e |-> 0]

\* the number (-1)^neg * m * 2^e with the trailing zero bits of m moved to e
RECURSIVE Canon(_, _, _)
Canon(neg, m, e) ==
    IF m = <<>> THEN FZero
    ELSE IF m[1] = 0 THEN Canon(neg, Tail(m), e + LimbBits)
    ELSE IF m[1] % 2 = 0 THEN Canon(neg, BDivSmall(m, 2), e + 1)
    ELSE [neg |-> neg, m |-> m, e |-> e]

\* q rounded to nearest, r the part cut off and half the weight of a tie
RoundNearestEven(q, r, half) ==
    IF BCmp(r, half) = 1 \/ (BCmp(r, half) = 0 /\ BIsOdd(q)) THEN BAdd(q, <<1>>) ELSE q

\* m without its last s bits, rounded
DropBits(m, q, s) == RoundNearestEven(q, BSub(m, BShl(q, s)), BShl(<<1>>, s - 1))

\* the binary64 nearest to (-1)^neg * m * 2^e, ties to the even mantissa
Round53(neg, m, e) ==
    IF BBitLen(m) <= MantissaBits
    THEN Canon(neg, m, e)
    ELSE Canon(neg, DropBits(m, BShr(m, BBitLen(m) - MantissaBits), BBitLen(m) - MantissaBits),
               e + BBitLen(m) - MantissaBits)

\* (-1)^xneg * mx * 2^e + (-1)^yneg * my * 2^e
AddAligned(xneg, mx, yneg, my, e) ==
    IF xneg = yneg
    THEN Canon(xneg, BAdd(mx, my), e)
    ELSE IF BCmp(mx, my) >= 0
         THEN Canon(xneg, BSub(mx, my), e)
         ELSE Canon(yneg, BSub(my, mx), e)

\* x + y as a number, before rounding
ExactAdd(x, y) ==
    AddAligned(x.neg, BShl(x.m, x.e - Min2(x.e, y.e)),
               y.neg, BShl(y.m, y.e - Min2(x.e, y.e)), Min2(x.e, y.e))

FNeg(x) == IF x.m = <<>> THEN x ELSE [x EXCEPT !.neg = ~x.neg]

SignOf(d) == IF d.m = <<>> THEN 0 ELSE IF d.neg THEN -1 ELSE 1

\* the sign of x - y: -1, 0 or 1
FCmp(x, y) == SignOf(ExactAdd(x, FNeg(y)))

RoundFloat(t) == Round53(t.neg, t.m, t.e)
FAdd(x, y) == RoundFloat(ExactAdd(x, y))
FSub(x, y) == FAdd(x, FNeg(y))
FMul(x, y) == Round53(x.neg # y.neg, BMul(x.m, y.m), x.e + y.e)
FromInt(n) == Canon(FALSE, BFromInt(n), 0)

\* the float n / d of two integers, n >= 0 and 0 < d < Base: the quotient
\* to DivBits binary places, with one more bit that tells whether anything
\* was left over, rounded
DivBits == 75
DivSticky(num, d) ==
    BAdd(BMulSmall(BDivSmall(num, d), 2), IF BModSmall(num, d) = 0 THEN <<>> ELSE <<1>>)
FDivInt(n, d) == Round53(FALSE, DivSticky(BShl(BFromInt(n), DivBits), d), 0 - DivBits - 1)

\* a decimal literal num/10 of the source, as the float the parser reads
Lit10(num) == FDivInt(num, 10)
FOne == FromInt(1)
FMin(x, y) == IF FCmp(y, x) < 0 THEN y ELSE x
FMax(x, y) == IF FCmp(y, x) > 0 THEN y ELSE x

(***************************************************************************)
(* QualityValidator (quality/validator.py).                                *)
(***************************************************************************)
\* the code points of 一-鿿 that the contents of the model use
CJKIdeographs == {"u554A", "u7EED"}
AsciiLetters ==
    {"a", "b", "c", "d", "e", "f", "g", "h", "i", "j", "k", "l", "m", "n", "o",
     "p", "q", "r", "s", "t", "u", "v", "w", "x", "y", "z", "A", "B"}
AsciiDigits == {"0", "1", "2", "3", "4", "5", "6", "7", "8", "9"}
\* U+FF0C U+3002 U+FF01 U+FF1F U+3001 U+FF1B U+FF1A " ' U+FF08 U+FF09
\* U+3010 U+3011 U+300A U+300B
CJKPunctuation ==
    {"uFF0C", IdeoStop, FullExcl, FullQuest, "u3001", "uFF1B", "uFF1A", "\"", "'",
     "uFF08", "uFF09", "u3010", "u3011", "u300A", "u300B"}
AsciiPunctuation ==
    {",", ".", "!", "?", ";", ":", "'", "\"", "(", ")", "[", "]", "{", "}", "<", ">"}
\* the grave accent is written by its code point
Backtick == "u0060"
AsciiSymbols == {"-", "+", "*", "/", "=", "#", "@", "%", "&", "_", "~", Backtick}
\* the character class of normal_pattern; _check_special_chars negates the same class
NormalChars ==
    CJKIdeographs \cup AsciiLetters \cup AsciiDigits \cup Whitespace \cup {"\r", "\t"}
        \cup CJKPunctuation \cup AsciiPunctuation \cup AsciiSymbols

CountIn(text, S) == Cardinality({i \in 1..Len(text) : text[i] \in S})

\* 1 - normal_chars / total_chars
CheckGarbled(text) ==
    IF text = <<>> THEN FZero
    ELSE FSub(FOne, FDivInt(CountIn(text, NormalChars), Len(text)))

CheckSpecialChars(text) ==
    IF text = <<>> THEN FZero
    ELSE FDivInt(Len(text) - CountIn(text, NormalChars), Len(text))

\* the length of the run of text[i] that starts at i (1-based)
RECURSIVE RunLen(_, _)
RunLen(text, i) ==
    IF i < Len(text) /\ text[i + 1] = text[i] THEN 1 + RunLen(text, i + 1) ELSE 1

\* the number of matches of single_repeat (a character other than a newline,
\* then itself four times or more): the scan takes a whole run of five or
\* more and goes on after it
RECURSIVE SingleRepeats(_, _)
SingleRepeats(text, i) ==
    IF i > Len(text) THEN 0
    ELSE LET run == RunLen(text, i)
         IN  IF text[i] # NL /\ run >= 5
             THEN 1 + SingleRepeats(text, i + run)
             ELSE SingleRepeats(text, i + 1)

\* pattern occurs in text at the 0-based offset k
OccursAt(text, pattern, k) ==
    /\ k + Len(pattern) <= Len(text)
    /\ \A j \in 1..Len(pattern) : text[k + j] = pattern[j]

\* pattern in text[from:]
Contains(text, pattern, from) ==
    \E k \in from..(Len(text) - Len(pattern)) : OccursAt(text, pattern, k)

\* text[from:].count(pattern): occurrences that do not overlap, left to right
RECURSIVE CountFrom(_, _, _)
CountFrom(text, pattern, from) ==
    IF from + Len(pattern) > Len(text) THEN 0
    ELSE IF OccursAt(text, pattern, from)
         THEN 1 + CountFrom(text, pattern, from + Len(pattern))
         ELSE CountFrom(text, pattern, from + 1)

\* for i in range(len(text) - length * 2): the credit of the first i whose
\* pattern is doubled somewhere after i and counted more than twice
RECURSIVE PhraseRepeat(_, _, _)
PhraseRepeat(text, length, i) ==
    IF i >= Len(text) - length * 2 THEN 0
    ELSE LET pattern == PySlice(text, i, i + length)
             count   == CountFrom(text, pattern, i)
         IN  IF Contains(text, pattern \o pattern, i) /\ count > 2
             THEN length * (count - 1)
             ELSE PhraseRepeat(text, length, i + 1)

RepeatedLen(text) ==
    SingleRepeats(text, 1) * 4
        + PhraseRepeat(text, 3, 0) + PhraseRepeat(text, 5, 0) + PhraseRepeat(text, 10, 0)

CheckRepetition(text) ==
    IF Len(text) < 20 THEN FZero
    ELSE FMin(FDivInt(RepeatedLen(text), Len(text)), FOne)

CheckQACompleteness(chunk) ==
    (IF chunk.question = <<>> THEN <<"missing_question">>
     ELSE IF Len(chunk.question) < 5 THEN <<"question_too_short">> ELSE <<>>)
    \o
    (IF chunk.answer = <<>> THEN <<"missing_answer">>
     ELSE IF Len(chunk.answer) < 10 THEN <<"answer_too_short">> ELSE <<>>)

\* every key is in scores when validate_chunk calls it
CalculateOverallScore(scores, issues) ==
    LET b1 == FSub(FOne, FMul(scores["garbled_ratio"], Lit10(5)))
        b2 == FSub(b1, FMul(scores["repetition_ratio"], Lit10(3)))
        b3 == FSub(b2, FMul(scores["special_char_ratio"], Lit10(2)))
        b4 == FSub(b3, FMul(FromInt(Len(issues)), Lit10(1)))
    IN  FMax(FZero, FMin(FOne, b4))

\* the issues of steps 2 to 6 of validate_chunk, in their order; an issue is
\* written as a tag in place of its message
IssuesOf(chunk, garbled_ratio, repetition_ratio, special_char_ratio) ==
    (IF Len(chunk.content) < config.min_content_length THEN <<"too_short">> ELSE <<>>)
    \o (IF FCmp(garbled_ratio, config.garbled_threshold) > 0 THEN <<"garbled">> ELSE <<>>)
    \o (IF FCmp(repetition_ratio, Lit10(5)) > 0 THEN <<"repetition">> ELSE <<>>)
    \o (IF FCmp(special_char_ratio, Lit10(3)) > 0 THEN <<"special_chars">> ELSE <<>>)
    \o (IF chunk.chunk_type = "qa" THEN CheckQACompleteness(chunk) ELSE <<>>)

ScoresOf(garbled_ratio, repetition_ratio, special_char_ratio) ==
    [k \in {"garbled_ratio", "repetition_ratio", "special_char_ratio"} |->
        CASE k = "garbled_ratio"    -> garbled_ratio
          [] k = "repetition_ratio" -> repetition_ratio
          [] OTHER                  -> special_char_ratio]

\* the end of validate_chunk: is_valid and the ValidationResult
ResultOf(chunk_id, issues, scores, overall_score) ==
    [chunk_id |-> chunk_id,
     is_valid |-> issues = <<>> \/ FCmp(overall_score, Lit10(6)) >= 0,
     issues   |-> issues,
     scores   |-> ("overall" :> overall_score) @@ scores]

ScoreWith(chunk_id, issues, scores) ==
    ResultOf(chunk_id, issues, scores, CalculateOverallScore(scores, issues))

ScoreRatios(chunk, garbled_ratio, repetition_ratio, special_char_ratio) ==
    ScoreWith(chunk.chunk_id,
              IssuesOf(chunk, garbled_ratio, repetition_ratio, special_char_ratio),
              ScoresOf(garbled_ratio, repetition_ratio, special_char_ratio))

\* validate_chunk after its check of empty content
ScoreChunk(chunk) ==
    ScoreRatios(chunk, CheckGarbled(chunk.content), CheckRepetition(chunk.content),
                CheckSpecialChars(chunk.content))

\* validate_chunk without its return on empty content
ValidateChunkNoShortCircuit(chunk) == ScoreChunk(chunk)

ValidateChunk(chunk) ==
    IF chunk.content = <<>> \/ Strip(chunk.content) = <<>>
    THEN [chunk_id |-> chunk.chunk_id, is_valid |-> FALSE,
          issues |-> <<"empty">>, scores |-> [k \in {"overall"} |-> FZero]]
    ELSE ScoreChunk(chunk)

RECURSIVE MapValidate(_)
MapValidate(chunks) ==
    IF chunks = <<>> THEN <<>>
    ELSE <<ValidateChunk(Head(chunks))>> \o MapValidate(Tail(chunks))

\* validate_chunks: the division by len(chunks) in the log line raises
\* ZeroDivisionError on the empty list
\* valid_chunks: the chunks whose result is valid, in their order
RECURSIVE ValidChunks(_, _, _)
ValidChunks(chunks, results, i) ==
    IF i > Len(chunks) THEN <<>>
    ELSE (IF results[i].is_valid THEN <<chunks[i]>> ELSE <<>>)
         \o ValidChunks(chunks, results, i + 1)

ValidateChunksReturn(chunks, results, remove_invalid) ==
    IF Len(chunks) = 0
    THEN [raised |-> "ZeroDivisionError", chunks |-> <<>>, results |-> <<>>]
    ELSE [raised |-> "none",
          chunks |-> IF remove_invalid THEN ValidChunks(chunks, results, 1) ELSE chunks,
          results |-> results]

ValidateChunks(chunks, remove_invalid) ==
    ValidateChunksReturn(chunks, MapValidate(chunks), remove_invalid)

(***************************************************************************)
(* The validator on its own: validate_chunk on one chunk, validate_chunks  *)
(* on a list, under the default QualityConfig.                             *)
(***************************************************************************)
MinContentLength == 20
GarbledThreshold == Lit10(3)

MaxRepeat     == 22
MaxPhraseReps == 4
MaxAbnormal   == 3
MaxLetters    == 9
MaxBatchLen   == 2

RECURSIVE Rep(_, _)
Rep(unit, k) == IF k = 0 THEN <<>> ELSE unit \o Rep(unit, k - 1)

\* characters outside the class of normal_pattern
AbnormalRun == <<"u2200", "u2201", "u2202", "u2203", "u2204">>
LetterRun   == <<"a", "b", "c", "d", "e", "f", "g", "h", "i", "j", "k", "l">>

VlRepeated == {Rep(<<c>>, n) : c \in {"a", "u554A", "u2200", SP}, n \in 0..MaxRepeat}
VlMixed ==
    {Rep(<<"x", "y", "z">>, k) \o SubSeq(AbnormalRun, 1, j) \o SubSeq(LetterRun, 1, m) :
        k \in 0..MaxPhraseReps, j \in 0..MaxAbnormal, m \in 0..MaxLetters}
VlContents  == VlRepeated \cup VlMixed
VlQuestions == {<<>>, <<"q", "?">>, <<"w", "h", "a", "t", "?">>}
VlAnswers   == {<<>>, <<"a">>, Rep(<<"a">>, 10)}

\* a chunk as Chunk.from_dict loads it: a text chunk carries no question and
\* no answer
VlChunks ==
    {[chunk_id |-> ChunkId("qa", 1), content |-> c, question |-> q, answer |-> a,
      chunk_type |-> "qa", metadata |-> NoMeta] :
        c \in VlContents, q \in VlQuestions, a \in VlAnswers}
    \cup {TextChunk("text", 1, c, NoMeta) : c \in VlContents}

VlBatchContents ==
    {<<>>, Rep(<<"a">>, 10), Rep(<<"u2200">>, 20), LetterRun \o <<SP>> \o LetterRun}
VlBatches ==
    {[i \in 1..Len(cs) |-> TextChunk("text", i, cs[i], NoMeta)] :
        cs \in SeqsUpTo(VlBatchContents, MaxBatchLen)}

InitValidator ==
    /\ config = [min_content_length |-> MinContentLength,
                 garbled_threshold |-> GarbledThreshold]
    /\ chunk_counter = 0
    /\ fs = Idle /\ ck = Idle /\ ps = Idle /\ dd = Idle /\ iv = Idle
    /\ \E chunks \in {<<c>> : c \in VlChunks} \cup VlBatches :
          vl = [pc |-> "ready", chunks |-> chunks, remove_invalid |-> FALSE,
                out |-> <<>>, results |-> <<>>, raised |-> "none"]

\* validate_chunk(chunk)
CallValidateChunk ==
    /\ vl.pc = "ready"
    /\ Len(vl.chunks) = 1
    /\ vl' = [vl EXCEPT !.pc = "validated",
                        !.results = <<ValidateChunk(vl.chunks[1])>>]
    /\ UNCHANGED <<config, chunk_counter, fs, ck, ps, dd, iv>>

\* validate_chunks(chunks, remove_invalid)
CallValidateChunks ==
    /\ vl.pc = "ready"
    /\ \E remove_invalid \in BOOLEAN :
          \E r \in {ValidateChunks(vl.chunks, remove_invalid)} :
              vl' = [vl EXCEPT !.pc = IF r.raised = "none" THEN "returned" ELSE "raised",
                               !.remove_invalid = remove_invalid,
                               !.out = r.chunks,
                               !.results = r.results,
                               !.raised = r.raised]
    /\ UNCHANGED <<config, chunk_counter, fs, ck, ps, dd, iv>>

NextValidator == CallValidateChunk \/ CallValidateChunks

SpecValidator == InitValidator /\ [][NextValidator]_vars

\* x * k as a number, k a small natural number
ExactScale(x, k) == Canon(x.neg, BMulSmall(x.m, k), x.e)

\* ten times the penalties of a result, as a number:
\* 5*garbled + 3*repetition + 2*special + 1 per issue
TenfoldPenalties(r) ==
    ExactAdd(ExactAdd(ExactScale(r.scores["garbled_ratio"], 5),
                      ExactScale(r.scores["repetition_ratio"], 3)),
             ExactAdd(ExactScale(r.scores["special_char_ratio"], 2),
                      FromInt(Len(r.issues))))

OneCharRepeated(content, n) ==
    Len(content) >= n /\ \A i \in 1..Len(content) : content[i] = content[1]

\* C7: on non-empty content validate_chunk answers is_valid exactly when the
\* issues are empty or the overall score is at least 0.6, and a chunk with
\* issues is rejected only if its penalties 0.5*garbled + 0.3*repetition +
\* 0.2*special + 0.1 per issue exceed 0.4.
C7_ValidIffNoIssuesOrFloor ==
    (vl.pc = "validated" /\ Strip(vl.chunks[1].content) # <<>>) =>
        LET r == vl.results[1]
        IN  /\ r.is_valid <=> (r.issues = <<>> \/ FCmp(r.scores["overall"], Lit10(6)) >= 0)
            /\ (r.issues # <<>> /\ ~r.is_valid) => FCmp(TenfoldPenalties(r), FromInt(4)) > 0

\* C8: on a content of one character repeated n >= 10 times, of either
\* chunk_type, validate_chunk reports repetition_ratio > 0.5 and
\* is_valid = false.
C8_RepeatedCharRejected ==
    (/\ vl.pc = "validated"
     /\ OneCharRepeated(vl.chunks[1].content, 10)
     /\ Strip(vl.chunks[1].content) # <<>>) =>
        LET r == vl.results[1]
        IN  /\ FCmp(r.scores["repetition_ratio"], Lit10(5)) > 0
            /\ ~r.is_valid

\* C9: on empty or whitespace-only content validate_chunk answers
\* is_valid = false, scores holding overall = 0 and nothing else, and exactly
\* one issue; no ratio and no Q&A completeness issue is computed.
C9_EmptyContentShortCircuits ==
    (vl.pc = "validated" /\ Strip(vl.chunks[1].content) = <<>>) =>
        LET r == vl.results[1]
        IN  /\ ~r.is_valid
            /\ DOMAIN r.scores = {"overall"}
            /\ r.scores["overall"] = FZero
            /\ r.issues = <<"empty">>

\* a Q&A chunk of twenty spaces with no question and no answer was validated
C9_Witness ==
    /\ vl.pc = "validated"
    /\ vl.chunks[1].content = Rep(<<SP>>, 20)
    /\ vl.chunks[1].chunk_type = "qa"
    /\ vl.chunks[1].question = <<>>
    /\ vl.chunks[1].answer = <<>>

\* C10: validate_chunks raises nothing and returns one result per chunk of
\* its input, the empty list included.
C10_ValidateChunksNeverRaises ==
    vl.pc \in {"returned", "raised"} =>
        /\ vl.raised = "none"
        /\ Len(vl.results) = Len(vl.chunks)

(***************************************************************************)
(* Regular expressions of the parser.  A pattern is a sequence of items,   *)
(* matched by backtracking in the order of preference of Python's re: a    *)
(* greedy quantifier tries the longest run first, a lazy one the shortest, *)
(* an alternation its branches from the left.  Every quantifier of the     *)
(* source's patterns is on a single character class.  Offsets are 0-based. *)
(***************************************************************************)
InClass(c, cls) == (c \in cls.set) # cls.neg
Cls(S)    == [neg |-> FALSE, set |-> S]
NotCls(S) == [neg |-> TRUE, set |-> S]

\* \s and \d; "." without and with DOTALL
ReSpace == Cls(Whitespace \cup {"\t", "\r"})
ReDigit == Cls(AsciiDigits)
Dot     == NotCls({NL})
DotAll  == NotCls({})
\* the ideographs the patterns and the texts of the model use
Ideographs ==
    {"u4E00", "u4E3A", "u4E48", "u4E49", "u4E9B", "u4EC0", "u4F18", "u4F55", "u4F5C", "u522B",
     "u533A", "u5341", "u539F", "u5426", "u54EA", "u554A", "u56E0", "u5982", "u5B9A", "u5FF5",
     "u600E", "u65B9", "u662F", "u6709", "u6790", "u6837", "u6848", "u6982", "u6B65", "u6CD5",
     "u6D41", "u70B9", "u7279", "u7406", "u7528", "u7A0B", "u7B2C", "u7B54", "u7EED", "u7F3A",
     "u89E3", "u95EE", "u9898", "u9AA4"}
\* those of them in the range U+4E00 to U+5341
IdeographsToTen ==
    {"u4E00", "u4E3A", "u4E48", "u4E49", "u4E9B", "u4EC0", "u4F18", "u4F55", "u4F5C", "u522B",
     "u533A", "u5341"}
\* \w
ReWord == Cls(AsciiLetters \cup AsciiDigits \cup {"_"} \cup Ideographs)

Chr(cls) == [t |-> "chr", cls |-> cls]
Lit(c)   == Chr(Cls({c}))
\* cls{min,max}; max = -1 for no upper limit
Quant(cls, min, max, greedy) ==
    [t |-> "rep", cls |-> cls, min |-> min, max |-> max, greedy |-> greedy]
Star(cls)     == Quant(cls, 0, -1, TRUE)
Plus(cls)     == Quant(cls, 1, -1, TRUE)
LazyPlus(cls) == Quant(cls, 1, -1, FALSE)
Opt(cls)      == Quant(cls, 0, 1, TRUE)
Bol == [t |-> "bol"]
Eol == [t |-> "eol"]
Bos == [t |-> "bos"]
Open(n)  == [t |-> "open", n |-> n]
Close(n) == [t |-> "close", n |-> n]
Alt(alts)   == [t |-> "alt", alts |-> alts]
Look(items) == [t |-> "look", items |-> items]
RECURSIVE LitSeq(_)
LitSeq(s) == IF s = <<>> THEN <<>> ELSE <<Lit(Head(s))>> \o LitSeq(Tail(s))

NoCaps  == <<<<0, 0>>, <<0, 0>>>>
NoMatch == [ok |-> FALSE, start |-> 0, end |-> 0, caps |-> NoCaps]
OrElse(m, other) == IF m.ok THEN m ELSE other

\* the length of the run of characters of cls at pos, max at most if max >= 0
RECURSIVE ClassRun(_, _, _, _)
ClassRun(text, pos, cls, max) ==
    IF max # 0 /\ pos < Len(text) /\ InClass(text[pos + 1], cls)
    THEN 1 + ClassRun(text, pos + 1, cls, max - 1)
    ELSE 0

RECURSIVE Match(_, _, _, _, _)
RECURSIVE TryCounts(_, _, _, _, _, _, _, _, _)
RECURSIVE TryAlts(_, _, _, _, _, _, _)

\* the item taken k times and then rest; failing that the next count in the
\* order of preference
TryCounts(rest, text, start, pos, caps, k, lo, hi, greedy) ==
    IF k < lo \/ k > hi THEN NoMatch
    ELSE OrElse(Match(rest, text, start, pos + k, caps),
                TryCounts(rest, text, start, pos, caps,
                          IF greedy THEN k - 1 ELSE k + 1, lo, hi, greedy))

TryAlts(alts, j, rest, text, start, pos, caps) ==
    IF j > Len(alts) THEN NoMatch
    ELSE OrElse(Match(alts[j] \o rest, text, start, pos, caps),
                TryAlts(alts, j + 1, rest, text, start, pos, caps))

MatchRep(it, run, rest, text, start, pos, caps) ==
    TryCounts(rest, text, start, pos, caps, IF it.greedy THEN run ELSE it.min,
              it.min, run, it.greedy)

MatchItem(it, rest, text, start, pos, caps) ==
    CASE it.t = "chr" ->
            IF pos < Len(text) /\ InClass(text[pos + 1], it.cls)
            THEN Match(rest, text, start, pos + 1, caps) ELSE NoMatch
      [] it.t = "bol" ->
            IF pos = 0 \/ text[pos] = NL
            THEN Match(rest, text, start, pos, caps) ELSE NoMatch
      [] it.t = "eol" ->
            IF pos = Len(text) \/ text[pos + 1] = NL
            THEN Match(rest, text, start, pos, caps) ELSE NoMatch
      [] it.t = "bos" ->
            IF pos = 0 THEN Match(rest, text, start, pos, caps) ELSE NoMatch
      [] it.t = "rep" ->
            MatchRep(it, ClassRun(text, pos, it.cls, it.max), rest, text, start, pos, caps)
      [] it.t = "open" ->
            Match(rest, text, start, pos, [caps EXCEPT ![it.n] = <<pos, pos>>])
      [] it.t = "close" ->
            Match(rest, text, start, pos, [caps EXCEPT ![it.n] = <<@[1], pos>>])
      [] it.t = "alt" ->
            TryAlts(it.alts, 1, rest, text, start, pos, caps)
      [] it.t = "look" ->
            IF Match(it.items, text, pos, pos, caps).ok
            THEN Match(rest, text, start, pos, caps) ELSE NoMatch

\* the match of items at pos of a match begun at start, or NoMatch
Match(items, text, start, pos, caps) ==
    IF items = <<>>
    THEN [ok |-> TRUE, start |-> start, end |-> pos, caps |-> caps]
    ELSE MatchItem(Head(items), Tail(items), text, start, pos, caps)

\* pattern.match(text)
MatchAtStart(items, text) == Match(items, text, 0, 0, NoCaps)

\* pattern.search(text, pos): the match of the leftmost start
RECURSIVE Search(_, _, _)
Search(items, text, pos) ==
    IF pos > Len(text) THEN NoMatch
    ELSE OrElse(Match(items, text, pos, pos, NoCaps), Search(items, text, pos + 1))

\* pattern.finditer(text): the matches from left to right, each sought from
\* the end of the one before (no pattern of the source matches the empty string)
RECURSIVE FindIterFrom(_, _, _)
RECURSIVE FindIterAfter(_, _, _)
FindIterAfter(items, text, m) ==
    IF ~m.ok THEN <<>>
    ELSE <<m>> \o FindIterFrom(items, text, IF m.end > m.start THEN m.end ELSE m.end + 1)
FindIterFrom(items, text, pos) == FindIterAfter(items, text, Search(items, text, pos))
FindIter(items, text) == FindIterFrom(items, text, 0)

\* match.group(n), n = 0 for the whole match
Group(text, m, n) ==
    IF n = 0 THEN PySlice(text, m.start, m.end)
    ELSE PySlice(text, m.caps[n][1], m.caps[n][2])

\* pattern.sub('', text)
RECURSIVE CutMatches(_, _, _, _)
CutMatches(text, ms, k, from) ==
    IF k > Len(ms) THEN PySlice(text, from, Len(text))
    ELSE PySlice(text, from, ms[k].start) \o CutMatches(text, ms, k + 1, ms[k].end)
SubEmpty(items, text) == CutMatches(text, FindIter(items, text), 1, 0)

NumSep    == Cls({".", "u3001", "uFF1A", ":"})
QMark     == Cls({"?", FullQuest})
HashCls   == Cls({"#"})
NumGroup(q) == <<Open(1), q, Close(1)>>
RestOfLine  == <<Open(2), Plus(Dot), Close(2), Eol>>

\* the alternatives of the heuristic pattern
QuestionWords ==
    <<<<"u4EC0", "u4E48">>,
     <<"u6709", "u4EC0", "u4E48">>,
     <<"u6709", "u54EA", "u4E9B">>,
     <<"u662F", "u4EC0", "u4E48">>,
     <<"u5982", "u4F55">>,
     <<"u600E", "u4E48">>,
     <<"u600E", "u6837">>,
     <<"u4E3A", "u4EC0", "u4E48">>,
     <<"u662F", "u5426">>,
     <<"u533A", "u522B">>,
     <<"u4F18", "u7F3A", "u70B9">>,
     <<"u7279", "u70B9">>,
     <<"u539F", "u7406">>,
     <<"u4F5C", "u7528">>,
     <<"u6D41", "u7A0B">>,
     <<"u6B65", "u9AA4">>,
     <<"u6982", "u5FF5">>,
     <<"u5B9A", "u4E49">>,
     <<"u65B9", "u6CD5">>,
     <<"u539F", "u56E0">>>>

\* question_patterns: items and number of groups, in the order of the source
QuestionPatterns ==
    <<[groups |-> 2,
       items |-> <<Bol, Quant(HashCls, 1, 4, TRUE), Star(ReSpace)>> \o NumGroup(Plus(ReDigit))
                 \o <<Opt(NumSep), Star(ReSpace)>> \o RestOfLine],
      [groups |-> 1,
       items |-> <<Bol, Quant(HashCls, 1, 6, TRUE), Star(ReSpace), Open(1), LazyPlus(Dot),
                   Chr(QMark), Close(1), Star(ReSpace), Eol>>],
      [groups |-> 2,
       items |-> <<Bol>> \o NumGroup(Plus(ReDigit))
                 \o <<Chr(NumSep), Star(ReSpace), Open(2), LazyPlus(Dot), Close(2),
                      Alt(<<<<Lit("?")>>, <<Lit(FullQuest)>>, <<Eol>>>>)>>],
      [groups |-> 2,
       items |-> <<Bol, Chr(Cls({"Q", "q"})), Star(ReSpace)>> \o NumGroup(Star(ReDigit))
                 \o <<Opt(NumSep), Star(ReSpace)>> \o RestOfLine],
      [groups |-> 2,
       items |-> <<Bol, Lit("u95EE"), Star(ReSpace)>> \o NumGroup(Star(ReDigit))
                 \o <<Opt(NumSep), Star(ReSpace)>> \o RestOfLine],
      [groups |-> 2,
       items |-> <<Bol, Lit("u3010"), Star(Cls({"u95EE", "u9898"}))>> \o NumGroup(Star(ReDigit))
                 \o <<Lit("u3011"), Star(ReSpace)>> \o RestOfLine],
      [groups |-> 2,
       items |-> <<Bol, Lit("*"), Lit("*")>> \o NumGroup(Plus(ReDigit))
                 \o <<Chr(Cls({".", "u3001"})), Star(ReSpace), Open(2), LazyPlus(Dot), Close(2),
                      Lit("*"), Lit("*")>>],
      [groups |-> 1,
       items |-> <<Bol, Star(ReSpace), Chr(Cls({"-", "*"})), Star(ReSpace), Open(1),
                   LazyPlus(Dot), Chr(QMark), Close(1), Star(ReSpace), Eol>>],
      [groups |-> 0,
       items |-> <<Bol, Look(<<Quant(Dot, 2, 120, TRUE), Eol>>), Star(Dot),
                   Alt([k \in 1..Len(QuestionWords) |-> LitSeq(QuestionWords[k])]),
                   Star(ReSpace), Eol>>]>>

\* step_marker_pattern, compiled with IGNORECASE and without MULTILINE
StepCount == Cls(IdeographsToTen \cup AsciiDigits)
StepMarkerPattern ==
    <<Bos,
      Alt(<<<<Lit("u7B2C"), Plus(StepCount), Lit("u6B65")>>,
            <<Lit("u6B65"), Lit("u9AA4"), Star(ReSpace), Plus(StepCount)>>,
            <<Chr(Cls({"s", "S"})), Chr(Cls({"t", "T"})), Chr(Cls({"e", "E"})),
              Chr(Cls({"p", "P"})), Star(ReSpace), Plus(ReDigit)>>>>)>>

AnswerSep == Cls({".", "u3001", ":", "uFF1A"})
AnswerStartPatterns ==
    <<<<Bol, Chr(Cls({"A", "a"})), Star(ReSpace), Chr(AnswerSep), Star(ReSpace)>>,
      <<Bol, Lit("u7B54"), Star(ReSpace), Chr(AnswerSep), Star(ReSpace)>>,
      <<Bol, Lit("u3010"), Lit("u7B54"), Opt(Cls({"u6848"})), Lit("u3011"), Star(ReSpace)>>,
      <<Bol, Lit("u89E3"), Chr(Cls({"u7B54", "u6790"})), Star(ReSpace), Opt(AnswerSep),
        Star(ReSpace)>>>>

\* the pattern of _parse_by_code_blocks, MULTILINE and DOTALL
CodeBlockPattern ==
    <<Bol, Open(1), Quant(HashCls, 1, 4, TRUE), Star(ReSpace), Star(ReDigit),
      Opt(Cls({".", "u3001", ",", "uFF0C"})), Star(ReSpace), LazyPlus(DotAll), Close(1), Eol,
      Star(ReSpace), Lit(Backtick), Lit(Backtick), Lit(Backtick), Star(ReWord), Star(ReSpace),
      Open(2), LazyPlus(DotAll), Close(2), Lit(Backtick), Lit(Backtick), Lit(Backtick)>>

(***************************************************************************)
(* QAParser (parsers/qa_parser.py).  A QAPair is a record of its question, *)
(* answer, question_num (<<>> for None, <<n>> for n), start_pos and        *)
(* end_pos.                                                                *)
(***************************************************************************)
DigitChars == <<"0", "1", "2", "3", "4", "5", "6", "7", "8", "9">>
DigitVal(c) == (CHOOSE i \in 1..Len(DigitChars) : DigitChars[i] = c) - 1

\* int(ds) continued from acc
RECURSIVE IntOf(_, _)
IntOf(ds, acc) == IF ds = <<>> THEN acc ELSE IntOf(Tail(ds), acc * 10 + DigitVal(Head(ds)))

\* int(num_str) if num_str and num_str.isdigit() else None
NumOf(num_str) == IF num_str = <<>> THEN <<>> ELSE <<IntOf(num_str, 0)>>

\* text.replace('\r\n', '\n').replace('\r', '\n')
RECURSIVE ReplaceCR(_)
ReplaceCR(text) ==
    IF text = <<>> THEN <<>>
    ELSE IF Head(text) = "\r"
         THEN <<NL>> \o ReplaceCR(IF Len(text) > 1 /\ text[2] = NL
                                  THEN SubSeq(text, 3, Len(text)) ELSE Tail(text))
         ELSE <<Head(text)>> \o ReplaceCR(Tail(text))

\* re.sub(r'\n{3,}', '\n\n', text); run is the number of newlines just copied
RECURSIVE CollapseNewlines(_, _)
CollapseNewlines(text, run) ==
    IF text = <<>> THEN <<>>
    ELSE IF Head(text) = NL
         THEN (IF run < 2 THEN <<NL>> ELSE <<>>) \o CollapseNewlines(Tail(text), run + 1)
         ELSE <<Head(text)>> \o CollapseNewlines(Tail(text), 0)

NormalizeText(text) == Strip(CollapseNewlines(ReplaceCR(text), 0))

\* groups[1] of the source: the question text that the step marker is tried on
QuestionText(text, pat, m) ==
    IF pat.groups >= 2 THEN Group(text, m, 2)
    ELSE IF pat.groups = 1 THEN Group(text, m, 1) ELSE <<>>

PositionOf(text, pat, m) ==
    [start |-> m.start, end |-> m.end,
     num |-> IF pat.groups >= 2 THEN NumOf(Group(text, m, 1)) ELSE <<>>,
     question |-> Strip(Group(text, m, 0))]

RECURSIVE PositionsOfMatches(_, _, _, _)
PositionsOfMatches(text, pat, ms, k) ==
    IF k > Len(ms) THEN <<>>
    ELSE (IF MatchAtStart(StepMarkerPattern, QuestionText(text, pat, ms[k])).ok
          THEN <<>> ELSE <<PositionOf(text, pat, ms[k])>>)
         \o PositionsOfMatches(text, pat, ms, k + 1)

\* question_positions: the matches of pattern p and of those after it
RECURSIVE QuestionPositions(_, _)
QuestionPositions(text, p) ==
    IF p > Len(QuestionPatterns) THEN <<>>
    ELSE PositionsOfMatches(text, QuestionPatterns[p],
                            FindIter(QuestionPatterns[p].items, text), 1)
         \o QuestionPositions(text, p + 1)

\* the insertion of a sort that puts a position before those of the same start
RECURSIVE InsertByStartBeforeEqual(_, _)
InsertByStartBeforeEqual(sorted, pos) ==
    IF sorted = <<>> THEN <<pos>>
    ELSE IF Head(sorted).start < pos.start
         THEN <<Head(sorted)>> \o InsertByStartBeforeEqual(Tail(sorted), pos)
         ELSE <<pos>> \o sorted

RECURSIVE InsertByStart(_, _)
InsertByStart(sorted, pos) ==
    IF sorted = <<>> THEN <<pos>>
    ELSE IF Head(sorted).start <= pos.start
         THEN <<Head(sorted)>> \o InsertByStart(Tail(sorted), pos)
         ELSE <<pos>> \o sorted

\* question_positions.sort(key=start): stable
RECURSIVE SortByStartInto(_, _)
SortByStartInto(positions, sorted) ==
    IF positions = <<>> THEN sorted
    ELSE SortByStartInto(Tail(positions), InsertByStart(sorted, Head(positions)))
SortByStart(positions) == SortByStartInto(positions, <<>>)

\* unique_positions: a position is kept if it starts at or after last_end
RECURSIVE UniquePositions(_, _)
UniquePositions(positions, last_end) ==
    IF positions = <<>> THEN <<>>
    ELSE IF Head(positions).start >= last_end
         THEN <<Head(positions)>> \o UniquePositions(Tail(positions), Head(positions).end)
         ELSE UniquePositions(Tail(positions), last_end)

RECURSIVE LStripNL(_)
LStripNL(text) == IF text # <<>> /\ Head(text) = NL THEN LStripNL(Tail(text)) ELSE text

RECURSIVE SubAnswerStarts(_, _)
SubAnswerStarts(text, k) ==
    IF k > Len(AnswerStartPatterns) THEN text
    ELSE SubAnswerStarts(SubEmpty(AnswerStartPatterns[k], text), k + 1)

CleanAnswerText(text) == Strip(LStripNL(SubAnswerStarts(text, 1)))

\* answer_end of the i-th unique position (i from 1), pointing one past the answer
AnswerEndAlwaysTextEnd(unique_positions, i, text) == Len(text)

AnswerEnd(unique_positions, i, text) ==
    IF i + 1 <= Len(unique_positions) THEN unique_positions[i + 1].start ELSE Len(text)

\* the pair of a marker, were its span to begin where the question ends
MarkerPairFromQuestionEnd(pos, answer_text, answer_end) ==
    IF answer_text = <<>> THEN <<>>
    ELSE <<[question |-> pos.question, answer |-> answer_text, question_num |-> pos.num,
            start_pos |-> pos.end, end_pos |-> answer_end]>>

MarkerPair(pos, answer_text, answer_end) ==
    IF answer_text = <<>> THEN <<>>
    ELSE <<[question |-> pos.question, answer |-> answer_text, question_num |-> pos.num,
            start_pos |-> pos.start, end_pos |-> answer_end]>>

MarkerPairAt(text, pos, answer_end) ==
    MarkerPair(pos, CleanAnswerText(Strip(PySlice(text, pos.end, answer_end))), answer_end)

RECURSIVE MarkerPairs(_, _, _)
MarkerPairs(unique_positions, i, text) ==
    IF i > Len(unique_positions) THEN <<>>
    ELSE MarkerPairAt(text, unique_positions[i], AnswerEnd(unique_positions, i, text))
         \o MarkerPairs(unique_positions, i + 1, text)

ParseByQuestionMarkers(text) ==
    MarkerPairs(UniquePositions(SortByStart(QuestionPositions(text, 1)), -1), 1, text)

\* re.search(r'(\d+)', question) as a question_num
NumOfMatch(question, m) == IF m.ok THEN <<IntOf(Group(question, m, 1), 0)>> ELSE <<>>
FirstNumber(question) ==
    NumOfMatch(question, Search(<<Open(1), Plus(ReDigit), Close(1)>>, question, 0))

CodeBlockPair(question, answer, m) ==
    [question |-> question, answer |-> answer, question_num |-> FirstNumber(question),
     start_pos |-> m.start, end_pos |-> m.end]

RECURSIVE CodeBlockPairs(_, _, _)
CodeBlockPairs(text, ms, k) ==
    IF k > Len(ms) THEN <<>>
    ELSE <<CodeBlockPair(Strip(Group(text, ms[k], 1)), Strip(Group(text, ms[k], 2)), ms[k])>>
         \o CodeBlockPairs(text, ms, k + 1)

ParseByCodeBlocks(text) == CodeBlockPairs(text, FindIter(CodeBlockPattern, text), 1)

IsQuestionPara(para) ==
    \/ para[Len(para)] \in {"?", FullQuest}
    \/ MatchAtStart(<<Bos, Plus(ReDigit), Chr(Cls({".", "u3001"}))>>, para).ok
    \/ MatchAtStart(<<Bos, Quant(HashCls, 1, 4, TRUE), Star(ReSpace), Plus(ReDigit)>>, para).ok

\* "if current_question and current_answer_parts: qa_pairs.append(...)";
\* current_question = <<>> stands for None
FlushPair(qa_pairs, current_question, current_answer_parts, current_start, position) ==
    IF current_question # <<>> /\ current_answer_parts # <<>>
    THEN Append(qa_pairs,
                [question |-> current_question, answer |-> Join(current_answer_parts, ParaSep),
                 question_num |-> <<>>, start_pos |-> current_start, end_pos |-> position])
    ELSE qa_pairs

RECURSIVE ParaLoop(_, _, _, _, _, _, _)
\* one pass of the loop of _parse_by_paragraphs, para the stripped paragraph
ParaStep(paragraphs, k, para, current_question, current_answer_parts, current_start, position, qa_pairs) ==
    IF para = <<>>
    THEN ParaLoop(paragraphs, k + 1, current_question, current_answer_parts, current_start,
                  position + 2, qa_pairs)
    ELSE IF IsQuestionPara(para)
    THEN ParaLoop(paragraphs, k + 1, para, <<>>, position, position + Len(para) + 2,
                  FlushPair(qa_pairs, current_question, current_answer_parts, current_start,
                            position))
    ELSE ParaLoop(paragraphs, k + 1, current_question,
                  IF current_question # <<>> THEN Append(current_answer_parts, para)
                                             ELSE current_answer_parts,
                  current_start, position + Len(para) + 2, qa_pairs)

ParaLoop(paragraphs, k, current_question, current_answer_parts, current_start, position, qa_pairs) ==
    IF k > Len(paragraphs)
    THEN FlushPair(qa_pairs, current_question, current_answer_parts, current_start, position)
    ELSE ParaStep(paragraphs, k, Strip(paragraphs[k]), current_question, current_answer_parts,
                  current_start, position, qa_pairs)

ParseByParagraphs(text) == ParaLoop(SplitParas(text), 1, <<>>, <<>>, 0, 0, <<>>)

\* the fallbacks of parse: the result and the strategy it came from
ParseAfterCodeBlocks(qa_pairs, text) ==
    IF qa_pairs # <<>> THEN [qa_pairs |-> qa_pairs, strategy |-> "code_blocks"]
    ELSE [qa_pairs |-> ParseByParagraphs(text), strategy |-> "paragraphs"]

\* parse, were it to add the pairs of the code-block scan to those of the
\* marker scan
ParseAfterMarkersMerging(qa_pairs, text) ==
    IF qa_pairs # <<>>
    THEN [qa_pairs |-> qa_pairs \o ParseByCodeBlocks(text), strategy |-> "markers"]
    ELSE ParseAfterCodeBlocks(ParseByCodeBlocks(text), text)

ParseAfterMarkers(qa_pairs, text) ==
    IF qa_pairs # <<>> THEN [qa_pairs |-> qa_pairs, strategy |-> "markers"]
    ELSE ParseAfterCodeBlocks(ParseByCodeBlocks(text), text)

ParseNormalized(text) == ParseAfterMarkers(ParseByQuestionMarkers(text), text)

Parse(text) ==
    IF text = <<>> \/ Strip(text) = <<>>
    THEN [qa_pairs |-> <<>>, strategy |-> "none"]
    ELSE ParseNormalized(NormalizeText(text))

(***************************************************************************)
(* The parser on its own: parse on a text made of a few segments, each a   *)
(* line or a short block, joined by newlines.                              *)
(***************************************************************************)
MaxSegments == 3

ParserSegments ==
    {<<"#", "1", "a", "?", NL, "a">>,
     <<"1", ".", "a">>,
     <<"-", SP, "a", "?">>,
     <<"a">>,
     <<>>,
     <<"a", "?">>,
     <<"a", "?", NL, NL, "a">>,
     <<"#", "a", NL, Backtick, Backtick, Backtick, "a", Backtick, Backtick, Backtick>>,
     <<"A", ":", "a">>,
     <<"u4EC0", "u4E48">>}

ParserTexts == {Join(segs, <<NL>>) : segs \in SeqsUpTo(ParserSegments, MaxSegments)}

InitParser ==
    /\ config = Idle
    /\ chunk_counter = 0
    /\ fs = Idle /\ ck = Idle /\ dd = Idle /\ vl = Idle /\ iv = Idle
    /\ \E text \in ParserTexts :
          ps = [pc |-> "ready", text |-> text, qa_pairs |-> <<>>, strategy |-> "none"]

\* parse(text)
CallParse ==
    /\ ps.pc = "ready"
    /\ \E r \in {Parse(ps.text)} :
          ps' = [ps EXCEPT !.pc = "parsed", !.qa_pairs = r.qa_pairs, !.strategy = r.strategy]
    /\ UNCHANGED <<config, chunk_counter, fs, ck, dd, vl, iv>>

NextParser == CallParse

SpecParser == InitParser /\ [][NextParser]_vars

\* C2: the list that parse returns, whichever strategy made it, is sorted by
\* start_pos and each pair ends at or before the start of the next.
C2_ParseSortedNonOverlapping ==
    ps.pc = "parsed" =>
        \A i \in 1..(Len(ps.qa_pairs) - 1) :
            /\ ps.qa_pairs[i].start_pos <= ps.qa_pairs[i + 1].start_pos
            /\ ps.qa_pairs[i].end_pos <= ps.qa_pairs[i + 1].start_pos

\* the marker scan returned two pairs: the first of a question that two
\* patterns matched at the same place, the second of a numbered question
C2_Witness ==
    /\ ps.pc = "parsed"
    /\ ps.strategy = "markers"
    /\ Len(ps.qa_pairs) = 2
    /\ ps.qa_pairs[1].question = <<"#", "1", "a", "?">>
    /\ ps.qa_pairs[2].question = <<"1", ".", "a">>
    /\ ps.qa_pairs[1].end_pos = ps.qa_pairs[2].start_pos

\* the result of the first strategy, in the order marker scan, code-block
\* scan, paragraph alternation, that yields a pair on the normalized text
FirstStrategyResult(markers, code_blocks, text) ==
    IF markers # <<>> THEN markers
    ELSE IF code_blocks # <<>> THEN code_blocks
    ELSE ParseByParagraphs(text)

FirstStrategyOn(text) ==
    FirstStrategyResult(ParseByQuestionMarkers(text), ParseByCodeBlocks(text), text)

\* C11: parse returns the pairs of the first strategy, in the order marker
\* scan, code-block scan, paragraph alternation, that yields at least one
\* pair, and only those; on an empty or whitespace-only text, or when no
\* strategy yields a pair, it returns the empty list (and raises nothing).
C11_FirstStrategyWins ==
    ps.pc = "parsed" =>
        ps.qa_pairs = IF Strip(ps.text) = <<>> THEN <<>>
                      ELSE FirstStrategyOn(NormalizeText(ps.text))

\* the marker scan yielded a pair on a text on which the code-block scan
\* yields one too
C11_Witness ==
    /\ ps.pc = "parsed"
    /\ ps.strategy = "markers"
    /\ ps.qa_pairs # <<>>
    /\ ParseByCodeBlocks(NormalizeText(ps.text)) # <<>>

\* chunk.metadata.get('is_split') is true
MarkedSplit(chunk) ==
    IF "is_split" \in DOMAIN chunk.metadata THEN chunk.metadata["is_split"] ELSE FALSE

\* C12: a pair with len(question) + len(answer) <= max_chunk_size, the
\* boundary values included, becomes exactly one chunk of chunk_qa_pairs, with
\* the pair's question and answer verbatim and not marked is_split.
C12_SmallPairOneVerbatimChunk ==
    (/\ ck.pc = "returned" /\ ck.op = "qa" /\ Len(ck.qa_pairs) = 1
     /\ Len(ck.qa_pairs[1].question) + Len(ck.qa_pairs[1].answer) <= config.max_chunk_size)
        => /\ Len(ck.chunks) = 1
           /\ ck.chunks[1].question = ck.qa_pairs[1].question
           /\ ck.chunks[1].answer = ck.qa_pairs[1].answer
           /\ ~MarkedSplit(ck.chunks[1])

(***************************************************************************)
(* The long-answer scenario: one Chunker with the default configuration    *)
(* (max_chunk_size 1500, overlap_size 100) and one pair whose answer is    *)
(* 4000 characters long, divided into paragraphs by blank lines at some of *)
(* the offsets 500, 1000, ...                                              *)
(***************************************************************************)
DefaultMaxChunkSize == 1500
DefaultOverlapSize == 100
MaxCuts == 7            \* the blank lines are at offsets 500 * (1..MaxCuts)

CutOffsets == {500 * k : k \in 1..MaxCuts} \cap 1..3997

\* the answer of 4000 characters with a blank line at each offset of cuts
LongAnswer(cuts) ==
    [i \in 1..4000 |-> IF \E c \in cuts : i \in {c + 1, c + 2} THEN NL ELSE "a"]

InitLongAnswer ==
    /\ config = [max_chunk_size |-> DefaultMaxChunkSize, overlap_size |-> DefaultOverlapSize]
    /\ chunk_counter = 0
    /\ \E cuts \in SUBSET CutOffsets :
          ck = [CkClient(<<>>, <<"q">>, 1) EXCEPT
                   !.qa_pairs = <<QAPairOf(<<"q">>, LongAnswer(cuts))>>]
    /\ fs = Idle /\ ps = Idle /\ dd = Idle /\ vl = Idle /\ iv = Idle

NextLongAnswer == CallChunkQAPairs

SpecLongAnswer == InitLongAnswer /\ [][NextLongAnswer]_vars

\* C13: for a pair with an answer of 4000 characters, however divided into
\* paragraphs, chunk_qa_pairs with max_chunk_size 1500 and overlap_size 100
\* returns at least 3 chunks, each after the first marked is_split.
C13_LongAnswerSplitInThree ==
    (ck.pc = "returned" /\ ck.op = "qa" /\ Len(ck.qa_pairs) = 1
     /\ Len(ck.qa_pairs[1].answer) = 4000
     /\ config.max_chunk_size = DefaultMaxChunkSize
     /\ config.overlap_size = DefaultOverlapSize)
        => /\ Len(ck.chunks) >= 3
           /\ \A i \in 2..Len(ck.chunks) : MarkedSplit(ck.chunks[i])

\* the paragraphs of the answer fields of chunks, in emission order
RECURSIVE AnswerParagraphs(_)
AnswerParagraphs(chunks) ==
    IF chunks = <<>> THEN <<>>
    ELSE SplitParas(Head(chunks).answer) \o AnswerParagraphs(Tail(chunks))

\* C14: the answer fields of the chunks of an oversized pair, in emission
\* order, hold every non-empty paragraph of the pair's answer exactly once
\* and in the original order: no overlap text and no paragraph lost.
C14_AnswerFieldsPartitionParagraphs ==
    (/\ ck.pc = "returned" /\ ck.op = "qa" /\ Len(ck.qa_pairs) = 1
     /\ CharCount(ck.qa_pairs[1]) > config.max_chunk_size)
        => AnswerParagraphs(ck.chunks) = StripParas(SplitParas(ck.qa_pairs[1].answer))

\* an oversized pair of two paragraphs was split in two chunks, the second
\* with overlap text in its content
C14_Witness ==
    /\ ck.pc = "returned" /\ ck.op = "qa" /\ Len(ck.qa_pairs) = 1
    /\ CharCount(ck.qa_pairs[1]) > config.max_chunk_size
    /\ Len(ck.chunks) = 2
    /\ Len(ck.chunks[2].content) >
           Len(ck.chunks[2].question) + Len(ContMark) + Len(ck.chunks[2].answer)

(***************************************************************************)
(* Sequences of calls: one Chunker and a client that makes up to MaxCalls  *)
(* calls, of any of the three operations, between two resets.              *)
(***************************************************************************)
MaxCalls == 2
MaxCallTextLen == 3

InitCalls ==
    /\ config \in CkConfigs
    /\ chunk_counter = 0
    /\ \E t \in SeqsUpTo(CkAlphabet, MaxCallTextLen), q \in CkQuestions :
          ck = CkClient(t, q, MaxCalls)
    /\ fs = Idle /\ ps = Idle /\ dd = Idle /\ vl = Idle /\ iv = Idle

NextCalls ==
    CallChunkQAPairs \/ CallChunkPlainText \/ CallChunkMarkdown \/ ResetCounter

SpecCalls == InitCalls /\ [][NextCalls]_vars

\* the prefix the ids of an operation are to carry
PrefixOfOp(op) ==
    CASE op = "qa" -> "qa" [] op = "plain" -> "text" [] op = "markdown" -> "md"

\* C15: the ids a Chunker makes between two resets (or since construction)
\* are pairwise distinct, their suffixes are 000001, 000002, ... in the order
\* of emission across all operations, and each carries the prefix of the
\* operation that made it: qa for chunk_qa_pairs, text for chunk_plain_text,
\* md for chunk_markdown.
C15_IdsCountUpWithOperationPrefix ==
    ck.pc \in {"ready", "returned"} =>
        /\ chunk_counter = Len(ck.emitted)
        /\ \A i \in 1..Len(ck.emitted) :
              /\ ck.emitted[i].chunk_id.suffix = Pad06(i)
              /\ ck.emitted[i].chunk_id.prefix = PrefixOfOp(ck.emitted[i].op)
              /\ \A j \in 1..Len(ck.emitted) :
                    ck.emitted[i].chunk_id = ck.emitted[j].chunk_id => i = j

(***************************************************************************)
(* Chunk.to_dict and Chunk.from_dict.  A Chunk is a record of the nine     *)
(* dataclass fields; a dict is a function on its keys.  None is <<>>, the  *)
(* number n is <<n>>.                                                      *)
(***************************************************************************)
ChunkFields ==
    {"chunk_id", "content", "question", "answer", "chunk_type", "source_file", "page_num",
     "question_num", "metadata"}

\* the fields of the dataclass that have no default
RequiredFields == {"chunk_id", "content"}

\* the defaults of the other fields
FieldDefault(k) ==
    CASE k = "chunk_type" -> "qa"
      [] k = "metadata" -> NoMeta
      [] OTHER -> <<>>

\* the property Chunk.char_count
ChunkCharCount(chunk) == Len(chunk.content)

\* Chunk.to_dict
ToDict(chunk) ==
    [k \in ChunkFields \cup {"char_count"} |->
        IF k = "char_count" THEN ChunkCharCount(chunk) ELSE chunk[k]]

\* data.pop(key, None): the dict that is left
Pop(data, key) == [k \in DOMAIN data \ {key} |-> data[k]]

\* cls(**data): a TypeError for a key that is no field or a missing required
\* field, else the Chunk of the given fields and the defaults
Construct(data) ==
    IF DOMAIN data \subseteq ChunkFields /\ RequiredFields \subseteq DOMAIN data
    THEN [raised |-> "none",
          chunk |-> [k \in ChunkFields |->
                        IF k \in DOMAIN data THEN data[k] ELSE FieldDefault(k)]]
    ELSE [raised |-> "TypeError", chunk |-> <<>>]

\* from_dict, were it to leave char_count in the dict
FromDictNoPop(data) == Construct(data)

\* Chunk.from_dict: the Chunk made, or the exception raised
FromDict(data) == Construct(Pop(data, "char_count"))

MaxContentLen == 2

RecordMetadata ==
    {NoMeta, [is_split |-> TRUE, part |-> 1], [force_split |-> TRUE], [md_title |-> <<"#">>]}

RecordChunks ==
    {[chunk_id |-> id, content |-> c, question |-> q[1], answer |-> q[2],
      chunk_type |-> q[3], source_file |-> f[1], page_num |-> f[2], question_num |-> f[3],
      metadata |-> m] :
        id \in {ChunkId("qa", 1), ChunkId("text", 2)},
        c \in SeqsUpTo({"a", NL}, MaxContentLen),
        q \in {<<<<"q">>, <<"a">>, "qa">>, <<<<>>, <<>>, "text">>, <<<<>>, <<>>, "qa">>},
        f \in {<<<<>>, <<>>, <<>>>>, <<<<"f">>, <<1>>, <<2>>>>},
        m \in RecordMetadata}

\* the keys a later stage adds to a persisted record
ExtraKeys == {"embedding", "quality"}

InitRecord ==
    /\ config = Idle
    /\ chunk_counter = 0
    /\ \E c \in RecordChunks :
          ck = [pc |-> "made", chunk |-> c, data |-> <<>>, extra |-> FALSE,
                loaded |-> <<>>, raised |-> "none"]
    /\ fs = Idle /\ ps = Idle /\ dd = Idle /\ vl = Idle /\ iv = Idle

\* data = chunk.to_dict()
CallToDict ==
    /\ ck.pc = "made"
    /\ ck' = [ck EXCEPT !.pc = "dict", !.data = ToDict(ck.chunk)]
    /\ UNCHANGED <<config, chunk_counter, fs, ps, dd, vl, iv>>

\* a later stage adds a top-level key to the persisted record
AddField ==
    /\ ck.pc = "dict" /\ ~ck.extra
    /\ \E key \in ExtraKeys :
          ck' = [ck EXCEPT !.extra = TRUE,
                           !.data = [k \in DOMAIN ck.data \cup {key} |->
                                        IF k = key THEN <<1>> ELSE ck.data[k]]]
    /\ UNCHANGED <<config, chunk_counter, fs, ps, dd, vl, iv>>

\* Chunk.from_dict(data), which also takes char_count out of data
CallFromDict ==
    /\ ck.pc = "dict"
    /\ \E r \in {FromDict(ck.data)} :
          ck' = [ck EXCEPT !.pc = IF r.raised = "none" THEN "loaded" ELSE "raised",
                           !.data = Pop(ck.data, "char_count"),
                           !.loaded = r.chunk, !.raised = r.raised]
    /\ UNCHANGED <<config, chunk_counter, fs, ps, dd, vl, iv>>

NextRecord == CallToDict \/ AddField \/ CallFromDict

SpecRecord == InitRecord /\ [][NextRecord]_vars

\* C16: Chunk.from_dict(c.to_dict()) has the content, chunk_id, metadata and
\* the six other fields of c, and holds no stored char_count: the property
\* is len(content) of the loaded chunk.
C16_DictRoundTrip ==
    (ck.pc \in {"loaded", "raised"} /\ ~ck.extra) =>
        /\ ck.raised = "none"
        /\ \A k \in ChunkFields : ck.loaded[k] = ck.chunk[k]
        /\ DOMAIN ck.loaded = ChunkFields
        /\ ChunkCharCount(ck.loaded) = Len(ck.chunk.content)

\* a split Q&A chunk with a source file and a page went through to_dict and
\* from_dict
C16_Witness ==
    /\ ck.pc = "loaded" /\ ~ck.extra
    /\ ck.chunk.metadata = [is_split |-> TRUE, part |-> 1]
    /\ ck.chunk.question = <<"q">>
    /\ ck.chunk.page_num = <<1>>
    /\ Len(ck.chunk.content) = MaxContentLen

\* C17: from_dict on a record of the ten serialized fields plus an extra
\* top-level key returns the Chunk of the known fields and raises nothing.
C17_ExtraFieldTolerated ==
    (ck.pc \in {"loaded", "raised"} /\ ck.extra) =>
        /\ ck.raised = "none"
        /\ \A k \in ChunkFields : ck.loaded[k] = ck.chunk[k]

(***************************************************************************)
(* QAParser.merge_short_qas                                                *)
(***************************************************************************)
\* the pair that current and the pair qa after it are merged into
MergedPair(current, qa) ==
    [question |-> current.question,
     answer |-> current.answer \o ParaSep \o qa.question \o <<NL>> \o qa.answer,
     question_num |-> current.question_num,
     start_pos |-> current.start_pos, end_pos |-> qa.end_pos]

\* the loop of merge_short_qas from pair k on and the final append; current
\* is <<>> for None and <<pair>> for a pair
RECURSIVE MergeLoop(_, _, _, _, _)
MergeLoop(qa_pairs, k, min_length, current, merged) ==
    IF k > Len(qa_pairs) THEN merged \o current
    ELSE IF current = <<>>
    THEN MergeLoop(qa_pairs, k + 1, min_length, <<qa_pairs[k]>>, merged)
    ELSE IF CharCount(current[1]) < min_length
    THEN MergeLoop(qa_pairs, k + 1, min_length, <<MergedPair(current[1], qa_pairs[k])>>,
                   merged)
    ELSE MergeLoop(qa_pairs, k + 1, min_length, <<qa_pairs[k]>>, merged \o current)

MergeShortQAs(qa_pairs, min_length) ==
    IF qa_pairs = <<>> THEN <<>> ELSE MergeLoop(qa_pairs, 1, min_length, <<>>, <<>>)

MaxMergePairs == 3      \* the list holds at most this many pairs
MaxMinLength == 7       \* min_length ranges over 0..MaxMinLength

\* the k-th pair of a list: its texts are of letters of its own, short (one
\* letter) or long (three), and its span is the k-th ten characters
MergeLetters == <<"k", "l", "m", "n", "o">>
MergePair(k, long_question, long_answer) ==
    [question |-> [i \in 1..(IF long_question THEN 3 ELSE 1) |-> MergeLetters[k]],
     answer |-> [i \in 1..(IF long_answer THEN 3 ELSE 1) |-> "a"],
     question_num |-> <<k>>, start_pos |-> 10 * (k - 1), end_pos |-> 10 * k]

MergeInputs ==
    {[k \in 1..n |-> MergePair(k, shape[k][1], shape[k][2])] :
        n \in 0..MaxMergePairs, shape \in [1..MaxMergePairs -> BOOLEAN \X BOOLEAN]}

InitMerge ==
    /\ config = Idle
    /\ chunk_counter = 0
    /\ fs = Idle /\ ck = Idle /\ dd = Idle /\ vl = Idle /\ iv = Idle
    /\ \E qa_pairs \in MergeInputs, min_length \in 0..MaxMinLength :
          ps = [pc |-> "ready", qa_pairs |-> qa_pairs, min_length |-> min_length,
                merged |-> <<>>]

\* merged = qa_parser.merge_short_qas(qa_pairs, min_length)
CallMergeShortQAs ==
    /\ ps.pc = "ready"
    /\ ps' = [ps EXCEPT !.pc = "merged",
                        !.merged = MergeShortQAs(ps.qa_pairs, ps.min_length)]
    /\ UNCHANGED <<config, chunk_counter, fs, ck, dd, vl, iv>>

NextMerge == CallMergeShortQAs

SpecMerge == InitMerge /\ [][NextMerge]_vars

IsShort(qa, min_length) == CharCount(qa) < min_length

\* the pair a short pair i is folded into: the first pair after it that is
\* not short, or the last pair
FoldTarget(qa_pairs, i, min_length) ==
    MinOf({j \in (i + 1)..Len(qa_pairs) :
              j = Len(qa_pairs) \/ ~IsShort(qa_pairs[j], min_length)})

\* C18: merge_short_qas folds every pair shorter than min_length into the
\* next pair: the resulting pair carries the question of the following pair,
\* holds the short pair's question and answer in its answer, starts where the
\* short pair starts and ends where the following pair ends; where no pair
\* is short the list is returned unchanged.
C18_ShortPairFoldedIntoNext ==
    ps.pc = "merged" =>
        /\ (\A i \in 1..Len(ps.qa_pairs) : ~IsShort(ps.qa_pairs[i], ps.min_length))
              => ps.merged = ps.qa_pairs
        /\ \A i \in 1..(Len(ps.qa_pairs) - 1) :
              IsShort(ps.qa_pairs[i], ps.min_length) =>
                 \E r \in 1..Len(ps.merged) :
                    /\ ps.merged[r].question =
                          ps.qa_pairs[FoldTarget(ps.qa_pairs, i, ps.min_length)].question
                    /\ Contains(ps.merged[r].answer, ps.qa_pairs[i].question, 0)
                    /\ Contains(ps.merged[r].answer, ps.qa_pairs[i].answer, 0)
                    /\ ps.merged[r].start_pos <= ps.qa_pairs[i].start_pos
                    /\ ps.merged[r].end_pos >= ps.qa_pairs[i + 1].end_pos

\* C19: every pair that parse returns, whichever the strategy, has offsets
\* into the normalized text: 0 <= start_pos <= end_pos <= len(text).
C19_OffsetsWithinText ==
    (ps.pc = "parsed" /\ ps.qa_pairs # <<>>) =>
        \A i \in 1..Len(ps.qa_pairs) :
            /\ 0 <= ps.qa_pairs[i].start_pos
            /\ ps.qa_pairs[i].start_pos <= ps.qa_pairs[i].end_pos
            /\ ps.qa_pairs[i].end_pos <= Len(NormalizeText(ps.text))

\* the markers that the marker scan retains on a normalized text
RetainedMarkers(text) == UniquePositions(SortByStart(QuestionPositions(text, 1)), -1)

\* the text between the end of the i-th retained marker and the start of the
\* next one (or the end of the text), cleaned as the scan cleans an answer
AnswerAfter(text, markers, i) ==
    CleanAnswerText(Strip(PySlice(text, markers[i].end,
                                  IF i < Len(markers) THEN markers[i + 1].start
                                                      ELSE Len(text))))

\* the text starts with a marker and every retained marker is followed by a
\* non-empty answer
MarkersCoverText(text, markers) ==
    /\ markers # <<>>
    /\ markers[1].start = 0
    /\ \A i \in 1..Len(markers) : AnswerAfter(text, markers, i) # <<>>

CoveredByMarkers(text) == MarkersCoverText(text, RetainedMarkers(text))

\* C20: when the marker scan is used on a (normalized) text that starts with
\* a marker and in which every retained marker is followed by a non-empty
\* answer, the spans of the returned pairs cover the text with no gaps: the
\* first start_pos is 0, each end_pos is the next pair's start_pos, and the
\* last end_pos is len(text).
C20_MarkerSpansCoverText ==
    (ps.pc = "parsed" /\ Strip(ps.text) # <<>> /\ CoveredByMarkers(NormalizeText(ps.text))) =>
        /\ ps.strategy = "markers"
        /\ ps.qa_pairs # <<>>
        /\ ps.qa_pairs[1].start_pos = 0
        /\ \A i \in 1..(Len(ps.qa_pairs) - 1) :
              ps.qa_pairs[i].end_pos = ps.qa_pairs[i + 1].start_pos
        /\ ps.qa_pairs[Len(ps.qa_pairs)].end_pos = Len(NormalizeText(ps.text))

\* parse returned two or more pairs of a text that starts with a marker and
\* whose retained markers all have an answer
C20_Witness ==
    /\ ps.pc = "parsed"
    /\ Strip(ps.text) # <<>>
    /\ CoveredByMarkers(NormalizeText(ps.text))
    /\ Len(ps.qa_pairs) >= 2

\* the text that a continuation chunk (the i-th chunk of a split pair, i > 1)
\* carries between the continuation mark and its own answer paragraphs
OverlapTail(chunk) ==
    SubSeq(chunk.content, Len(chunk.question) + Len(ContMark) + 1,
           Len(chunk.content) - Len(chunk.answer))

LastParagraph(answer) == SplitParas(answer)[Len(SplitParas(answer))]

IsSuffix(tail, text) ==
    Len(tail) <= Len(text) /\ SubSeq(text, Len(text) - Len(tail) + 1, Len(text)) = tail

\* C21: in _split_long_qa the overlap tail at the start of a continuation
\* chunk is at most overlap_size characters long and is a verbatim suffix of
\* the last paragraph accumulated in the chunk before it.
C21_OverlapTailIsBoundedSuffix ==
    (ck.pc = "returned" /\ ck.op = "qa") =>
        \A i \in 2..Len(ck.chunks) :
            /\ Len(OverlapTail(ck.chunks[i])) <= config.overlap_size
            /\ IsSuffix(OverlapTail(ck.chunks[i]), LastParagraph(ck.chunks[i - 1].answer))

\* the last k characters of text, all of it when it has no more than k
LastChars(text, k) ==
    IF Len(text) <= k THEN text ELSE SubSeq(text, Len(text) - k + 1, Len(text))

IsPrefix(head, text) == Len(head) <= Len(text) /\ SubSeq(text, 1, Len(head)) = head

\* the stripped, non-empty paragraphs that the loop of chunk_plain_text sees
PlainParagraphs(text) == StripParas(SplitParas(text))

\* no paragraph is on its own longer than max_chunk_size, so that
\* chunk_plain_text never calls _force_split and every chunk but the last is
\* emitted because the next paragraph would not fit
NoOversizedParagraph(text) ==
    \A k \in 1..Len(PlainParagraphs(text)) :
        Len(PlainParagraphs(text)[k]) <= config.max_chunk_size

\* content begins with tail and then, directly or after a blank line, with a
\* paragraph of the text
BeginsWithTailThenParagraph(content, tail, paras) ==
    \E k \in 1..Len(paras) :
        \/ IsPrefix(tail \o paras[k], content)
        \/ IsPrefix(tail \o ParaSep \o paras[k], content)

\* C22: in chunk_plain_text, whenever a chunk is emitted because the next
\* paragraph would exceed max_chunk_size, the content of the following chunk
\* begins with the last overlap_size characters of the emitted chunk's
\* content, followed by that next paragraph, also when the emitted chunk is
\* not longer than overlap_size.
C22_PlainOverlapFromEmittedChunk ==
    (ck.pc = "returned" /\ ck.op = "plain" /\ NoOversizedParagraph(ck.text)) =>
        \A i \in 1..(Len(ck.chunks) - 1) :
            BeginsWithTailThenParagraph(
                ck.chunks[i + 1].content,
                LastChars(ck.chunks[i].content, config.overlap_size),
                PlainParagraphs(ck.text))

\* a pass of the _force_split loop has cut the piece text[fs.start:fs'.end]
CutsPiece == fs.pc = "loop" /\ fs'.pc = "loop" /\ chunk_counter' # chunk_counter

\* C23: every piece cut by _force_split covers at most max_chunk_size
\* characters of the text and, unless it is the last, at least
\* max_chunk_size/2; every piece after the first starts exactly overlap_size
\* characters before the end of the piece before it; and the pieces reach the
\* end of the text when the loop is left.
C23_ForcedPiecesBounded ==
    [][/\ CutsPiece =>
            /\ fs'.end - fs.start <= config.max_chunk_size
            /\ fs'.end < Len(fs.text) => 2 * (fs'.end - fs.start) >= config.max_chunk_size
            /\ fs.chunks # <<>> => fs.start = fs.end - config.overlap_size
       /\ fs'.pc = "done" => fs'.end >= Len(fs'.text)]_vars

(***************************************************************************)
(* The question-bank branch of scripts/03_parse_qa.py: parse, then         *)
(* parse_headings, the merge of the two lists and the answer-length        *)
(* filter, up to the list that goes to chunk_qa_pairs.                     *)
(***************************************************************************)
\* heading_pattern of parse_headings, MULTILINE
HeadingPattern ==
    <<Bol, Quant(HashCls, 1, 6, TRUE), Star(ReSpace), Open(1), Plus(Dot), Close(1), Eol>>

HeadingPosition(text, m) ==
    [start |-> m.start, end |-> m.end, num |-> <<>>, question |-> Strip(Group(text, m, 0))]

\* positions of parse_headings: the headings that are no step markers
RECURSIVE HeadingPositions(_, _, _)
HeadingPositions(text, ms, k) ==
    IF k > Len(ms) THEN <<>>
    ELSE (IF MatchAtStart(StepMarkerPattern, Strip(Group(text, ms[k], 1))).ok
          THEN <<>> ELSE <<HeadingPosition(text, ms[k])>>)
         \o HeadingPositions(text, ms, k + 1)

\* the loop of parse_headings: the same span and answer rule as the marker scan
HeadingPairs(text) == MarkerPairs(HeadingPositions(text, FindIter(HeadingPattern, text), 1), 1, text)

ParseHeadings(text) ==
    IF text = <<>> \/ Strip(text) = <<>> THEN <<>> ELSE HeadingPairs(NormalizeText(text))

\* inside_explicit: the heading pair lies within the span of a pair of qa_pairs
InsideExplicit(heading_qa, qa_pairs) ==
    \E i \in 1..Len(qa_pairs) :
        /\ qa_pairs[i].start_pos <= heading_qa.start_pos
        /\ heading_qa.end_pos <= qa_pairs[i].end_pos

FilteredHeadings(heading_qas, qa_pairs) ==
    SelectSeq(heading_qas, LAMBDA h : ~InsideExplicit(h, qa_pairs))

RECURSIVE InsertByStartPos(_, _)
InsertByStartPos(sorted, qa) ==
    IF sorted = <<>> THEN <<qa>>
    ELSE IF Head(sorted).start_pos <= qa.start_pos
         THEN <<Head(sorted)>> \o InsertByStartPos(Tail(sorted), qa)
         ELSE <<qa>> \o sorted

\* sorted(pairs, key=lambda qa: qa.start_pos): stable
RECURSIVE SortedByStartPos(_, _)
SortedByStartPos(pairs, sorted) ==
    IF pairs = <<>> THEN sorted
    ELSE SortedByStartPos(Tail(pairs), InsertByStartPos(sorted, Head(pairs)))

\* "if qa_pairs: ... else: qa_pairs = heading_qas"
MergeHeadings(qa_pairs, heading_qas) ==
    IF qa_pairs # <<>>
    THEN SortedByStartPos(qa_pairs \o FilteredHeadings(heading_qas, qa_pairs), <<>>)
    ELSE heading_qas

\* the pairs whose stripped answer has min_answer_len characters or more
WithAnswers(qa_pairs, min_answer_len) ==
    SelectSeq(qa_pairs, LAMBDA qa : qa.answer # <<>> /\ Len(Strip(qa.answer)) >= min_answer_len)

MaxMinAnswerLen == 2

InitBank ==
    /\ config \in [min_content_length : 1..MaxMinAnswerLen]
    /\ chunk_counter = 0
    /\ fs = Idle /\ ck = Idle /\ dd = Idle /\ vl = Idle /\ iv = Idle
    /\ \E text \in ParserTexts :
          ps = [pc |-> "ready", text |-> text, parsed |-> <<>>, strategy |-> "none",
                heading_qas |-> <<>>, qa_pairs |-> <<>>]

\* one question-bank document, from qa_parser.parse to the list for the chunker
ParseQuestionBank ==
    /\ ps.pc = "ready"
    /\ \E r \in {Parse(ps.text)}, h \in {ParseHeadings(ps.text)} :
          ps' = [ps EXCEPT !.pc = "merged", !.parsed = r.qa_pairs, !.strategy = r.strategy,
                           !.heading_qas = h,
                           !.qa_pairs = WithAnswers(MergeHeadings(r.qa_pairs, h),
                                                    config.min_content_length)]
    /\ UNCHANGED <<config, chunk_counter, fs, ck, dd, vl, iv>>

NextBank == ParseQuestionBank

SpecBank == InitBank /\ [][NextBank]_vars

\* the spans [start_pos, end_pos) of two pairs have a character in common
SpansIntersect(a, b) ==
    /\ a.start_pos < b.end_pos
    /\ b.start_pos < a.end_pos

\* C24: for a question-bank document a heading pair is merged into the
\* marker-scan pairs only if its span intersects the span of no marker-scan
\* pair, so the list handed to the chunker is sorted by start_pos and no pair
\* in it runs into the next.
C24_HeadingsMergedOnlyIfDisjoint ==
    (ps.pc = "merged" /\ ps.strategy = "markers") =>
        /\ \A i \in 1..Len(ps.qa_pairs) :
              \/ \E j \in 1..Len(ps.parsed) : ps.qa_pairs[i] = ps.parsed[j]
              \/ \A j \in 1..Len(ps.parsed) : ~SpansIntersect(ps.qa_pairs[i], ps.parsed[j])
        /\ \A i \in 1..(Len(ps.qa_pairs) - 1) :
              /\ ps.qa_pairs[i].start_pos <= ps.qa_pairs[i + 1].start_pos
              /\ ps.qa_pairs[i].end_pos <= ps.qa_pairs[i + 1].start_pos

\* the first of the matches, taken pattern by pattern in the order of the
\* pattern list, that starts at offset start
FirstMatchAt(matches, start) ==
    matches[CHOOSE k \in 1..Len(matches) :
                /\ matches[k].start = start
                /\ \A j \in 1..(k - 1) : matches[j].start # start]

Retains(retained, match) == \E i \in 1..Len(retained) : retained[i] = match

\* match starts within a retained match that starts at or before it
StartsInsideRetained(retained, match) ==
    \E i \in 1..Len(retained) :
        /\ retained[i].start <= match.start
        /\ match.start < retained[i].end

\* earliest-match-wins over the matches of all patterns
EarliestMatchWins(matches, retained) ==
    /\ \A i \in 1..Len(retained) : \E k \in 1..Len(matches) : matches[k] = retained[i]
    /\ \A i \in 1..(Len(retained) - 1) :
          /\ retained[i].start < retained[i + 1].start
          /\ retained[i].end <= retained[i + 1].start
    /\ \A k \in 1..Len(matches) :
          ~Retains(retained, matches[k]) => StartsInsideRetained(retained, matches[k])
    /\ \A i \in 1..Len(retained) :
          retained[i] = FirstMatchAt(matches, retained[i].start)

FDivFloatInt(x, d) == Round53(x.neg, DivSticky(BShl(x.m, DivBits), d), x.e - DivBits - 1)

\* normalized.split()
Words(normalized) == SelectSeq(SplitOn(normalized, Whitespace), LAMBDA w : w # <<>>)

FeaturesOfWords(text, normalized, words) ==
    [words |-> {words[i] : i \in 1..Len(words)},
     bigrams |-> {<<words[i], words[i + 1]>> : i \in 1..(Len(words) - 1)},
     trigrams |-> {<<words[i], words[i + 1], words[i + 2]>> : i \in 1..(Len(words) - 2)},
     char_bigrams |-> {SubSeq(normalized, i, i + 1) : i \in 1..(Len(normalized) - 1)},
     length |-> Len(text)]

\* Deduplicator._extract_features
ExtractFeatures(text) ==
    FeaturesOfWords(text, NormalizeForDedup(text), Words(NormalizeForDedup(text)))

\* chunk_features[chunk_id]: the features of the last chunk of that id
ChunkFeatures(chunks, chunk_id) ==
    ExtractFeatures(chunks[MaxOf({k \in 1..Len(chunks) : chunks[k].chunk_id = chunk_id})].content)

\* "if a and b: scores.append(intersection / union)"
JaccardScore(a, b) ==
    IF a # {} /\ b # {}
    THEN <<FDivInt(Cardinality(a \cap b), Cardinality(a \cup b))>>
    ELSE <<>>

\* sum(scores), from the integer 0
RECURSIVE SumScores(_, _)
SumScores(scores, total) ==
    IF scores = <<>> THEN total ELSE SumScores(Tail(scores), FAdd(total, Head(scores)))

MeanScore(scores) ==
    IF scores = <<>> THEN FZero ELSE FDivFloatInt(SumScores(scores, FZero), Len(scores))

\* Deduplicator._compute_similarity
ComputeSimilarity(features1, features2) ==
    MeanScore(JaccardScore(features1.words, features2.words)
              \o JaccardScore(features1.char_bigrams, features2.char_bigrams)
              \o JaccardScore(features1.bigrams, features2.bigrams))

\* len(a.content) > len(b.content) * 1.1
LongerByTenth(a, b) == FCmp(FromInt(Len(a.content)), FMul(FromInt(Len(b.content)), Lit10(11))) > 0

MetadataKeys(chunk) == Cardinality(DOMAIN chunk.metadata)

\* _should_keep_first, were it to look at the metadata before the lengths
ShouldKeepFirstMetadataFirst(chunk1, chunk2) ==
    IF chunk1.chunk_type = "qa" /\ chunk2.chunk_type # "qa" THEN TRUE
    ELSE IF chunk2.chunk_type = "qa" /\ chunk1.chunk_type # "qa" THEN FALSE
    ELSE IF MetadataKeys(chunk1) > MetadataKeys(chunk2) THEN TRUE
    ELSE IF MetadataKeys(chunk2) > MetadataKeys(chunk1) THEN FALSE
    ELSE IF LongerByTenth(chunk1, chunk2) THEN TRUE
    ELSE IF LongerByTenth(chunk2, chunk1) THEN FALSE
    ELSE TRUE

\* Deduplicator._should_keep_first
ShouldKeepFirst(chunk1, chunk2) ==
    IF chunk1.chunk_type = "qa" /\ chunk2.chunk_type # "qa" THEN TRUE
    ELSE IF chunk2.chunk_type = "qa" /\ chunk1.chunk_type # "qa" THEN FALSE
    ELSE IF LongerByTenth(chunk1, chunk2) THEN TRUE
    ELSE IF LongerByTenth(chunk2, chunk1) THEN FALSE
    ELSE IF MetadataKeys(chunk1) > MetadataKeys(chunk2) THEN TRUE
    ELSE IF MetadataKeys(chunk2) > MetadataKeys(chunk1) THEN FALSE
    ELSE TRUE

\* sim >= threshold for chunk1 = chunks[i] and chunk2 = chunks[j]
SimilarAt(chunks, i, j, threshold) ==
    FCmp(ComputeSimilarity(ChunkFeatures(chunks, chunks[i].chunk_id),
                           ChunkFeatures(chunks, chunks[j].chunk_id)), threshold) >= 0

\* the inner loop of _similarity_dedup without its break
RECURSIVE SimInnerNoBreak(_, _, _, _, _, _)
SimInnerNoBreak(chunks, i, j, threshold, to_remove, duplicates) ==
    IF j > Len(chunks) THEN [to_remove |-> to_remove, duplicates |-> duplicates]
    ELSE IF chunks[j].chunk_id \in to_remove
    THEN SimInnerNoBreak(chunks, i, j + 1, threshold, to_remove, duplicates)
    ELSE IF ~SimilarAt(chunks, i, j, threshold)
    THEN SimInnerNoBreak(chunks, i, j + 1, threshold, to_remove, duplicates)
    ELSE IF ShouldKeepFirst(chunks[i], chunks[j])
    THEN SimInnerNoBreak(chunks, i, j + 1, threshold, to_remove \cup {chunks[j].chunk_id},
                         Append(duplicates, <<chunks[j].chunk_id, chunks[i].chunk_id>>))
    ELSE SimInnerNoBreak(chunks, i, j + 1, threshold, to_remove \cup {chunks[i].chunk_id},
                         Append(duplicates, <<chunks[i].chunk_id, chunks[j].chunk_id>>))

\* the inner loop of _similarity_dedup: chunk1 = chunks[i] against chunks[j:]
RECURSIVE SimInner(_, _, _, _, _, _)
SimInner(chunks, i, j, threshold, to_remove, duplicates) ==
    IF j > Len(chunks) THEN [to_remove |-> to_remove, duplicates |-> duplicates]
    ELSE IF chunks[j].chunk_id \in to_remove
    THEN SimInner(chunks, i, j + 1, threshold, to_remove, duplicates)
    ELSE IF ~SimilarAt(chunks, i, j, threshold)
    THEN SimInner(chunks, i, j + 1, threshold, to_remove, duplicates)
    ELSE IF ShouldKeepFirst(chunks[i], chunks[j])
    THEN SimInner(chunks, i, j + 1, threshold, to_remove \cup {chunks[j].chunk_id},
                  Append(duplicates, <<chunks[j].chunk_id, chunks[i].chunk_id>>))
    ELSE [to_remove |-> to_remove \cup {chunks[i].chunk_id},
          duplicates |-> Append(duplicates, <<chunks[i].chunk_id, chunks[j].chunk_id>>)]

\* the outer loop of _similarity_dedup, acc the to_remove and duplicates so far
RECURSIVE SimOuter(_, _, _, _)
SimOuter(chunks, i, threshold, acc) ==
    IF i > Len(chunks) THEN acc
    ELSE IF chunks[i].chunk_id \in acc.to_remove THEN SimOuter(chunks, i + 1, threshold, acc)
    ELSE SimOuter(chunks, i + 1, threshold,
                  SimInner(chunks, i, i + 1, threshold, acc.to_remove, acc.duplicates))

SimilarityResult(chunks, acc) ==
    [unique_chunks |-> SelectSeq(chunks, LAMBDA c : c.chunk_id \notin acc.to_remove),
     duplicates |-> acc.duplicates]

\* Deduplicator._similarity_dedup
SimilarityDedup(chunks, threshold) ==
    IF Len(chunks) <= 1 THEN [unique_chunks |-> chunks, duplicates |-> <<>>]
    ELSE SimilarityResult(chunks, SimOuter(chunks, 1, threshold,
                                           [to_remove |-> {}, duplicates |-> <<>>]))

(***************************************************************************)
(* _similarity_dedup on its own: one call on a list of chunks numbered as  *)
(* one Chunker numbers them, with a threshold.                             *)
(***************************************************************************)
MaxSimChunks == 3       \* the input list holds at most this many chunks

\* contents that normalize to the same text or share some of their words; two
\* of them differ in length by a tenth exactly, and two that are not similar
\* at 0.5 are both similar to a third
ContentAB   == <<"a", SP, "b">>
ContentABC  == <<"a", SP, "b", SP, "c">>
ContentBC   == <<"b", SP, "c">>
ContentTen  == Rep(<<"a">>, 8) \o <<SP, "b">>

TextKind   == [chunk_type |-> "text", metadata |-> NoMeta]
QAKind     == [chunk_type |-> "qa", metadata |-> NoMeta]
TitledKind == [chunk_type |-> "text", metadata |-> [k \in {"md_title"} |-> <<"t">>]]

\* the chunks of the inputs, as content and kind (chunk_type and metadata)
SimChunkKinds ==
    {<<ContentABC, TextKind>>, <<ContentBC, TextKind>>,
     <<ContentAB, TextKind>>, <<ContentAB, QAKind>>, <<ContentAB, TitledKind>>,
     <<ContentAB \o <<".">>, TextKind>>, <<ContentAB \o <<".">>, QAKind>>,
     <<ContentTen, TextKind>>,
     <<ContentTen \o <<".">>, TextKind>>, <<ContentTen \o <<".">>, TitledKind>>}

\* dedup_threshold: the default 0.95, and 0.5
SimThresholds == {FDivInt(95, 100), FDivInt(5, 10)}

SimChunk(i, content, kind) ==
    [chunk_id |-> ChunkId(kind.chunk_type, i), content |-> content,
     question |-> <<>>, answer |-> <<>>,
     chunk_type |-> kind.chunk_type, metadata |-> kind.metadata]

SimInputs ==
    {[i \in 1..Len(cs) |-> SimChunk(i, cs[i][1], cs[i][2])] :
        cs \in SeqsUpTo(SimChunkKinds, MaxSimChunks)}

InitSimilar ==
    /\ \E input \in SimInputs, threshold \in SimThresholds :
          dd = [pc |-> "loaded", input |-> input, threshold |-> threshold,
                chunks |-> input, duplicates |-> <<>>]
    /\ config = Idle /\ chunk_counter = 0
    /\ fs = Idle /\ ck = Idle /\ ps = Idle /\ vl = Idle /\ iv = Idle

\* chunks, similar_dups = self._similarity_dedup(chunks, threshold)
CallSimilarityDedup ==
    /\ dd.pc = "loaded"
    /\ \E out \in {SimilarityDedup(dd.chunks, dd.threshold)} :
          dd' = [dd EXCEPT !.pc = "deduped", !.chunks = out.unique_chunks,
                           !.duplicates = out.duplicates]
    /\ UNCHANGED <<config, chunk_counter, fs, ck, ps, vl, iv>>

NextSimilar == CallSimilarityDedup

SpecSimilar == InitSimilar /\ [][NextSimilar]_vars

\* the composite similarity of two chunks is at or above threshold
Similar(chunk1, chunk2, threshold) ==
    FCmp(ComputeSimilarity(ExtractFeatures(chunk1.content), ExtractFeatures(chunk2.content)),
         threshold) >= 0

\* the pairs of duplicates that name chunk_id as the removed chunk
PairsRemoving(duplicates, chunk_id) == {p \in 1..Len(duplicates) : duplicates[p][1] = chunk_id}

\* C26: after _similarity_dedup with threshold t no two survivors have a
\* composite similarity >= t, every removed chunk is the removed element of
\* exactly one returned pair (and no survivor of any), and the survivors
\* keep the order of the input.
C26_SimilarityDedupSeparates ==
    dd.pc = "deduped" =>
        /\ \A i, j \in 1..Len(dd.chunks) :
              i < j => ~Similar(dd.chunks[i], dd.chunks[j], dd.threshold)
        /\ \A k \in 1..Len(dd.input) :
              Cardinality(PairsRemoving(dd.duplicates, dd.input[k].chunk_id))
                  = IF dd.input[k].chunk_id \in IdsOf(dd.chunks) THEN 0 ELSE 1
        /\ dd.chunks = SelectSeq(dd.input, LAMBDA c : c.chunk_id \in IdsOf(dd.chunks))

\* a run on three chunks in which the first was removed for the second, the
\* inner loop left, and the second then compared with the third
C26_Witness ==
    /\ dd.pc = "deduped"
    /\ Len(dd.input) = 3
    /\ dd.duplicates # <<>>
    /\ dd.duplicates[1] = <<dd.input[1].chunk_id, dd.input[2].chunk_id>>
    /\ Similar(dd.input[1], dd.input[3], dd.threshold)
    /\ Len(dd.chunks) = 2

\* a's content is more than 10% longer than b's
MoreThanTenthLonger(a, b) == 10 * Len(a.content) > 11 * Len(b.content)

\* the chunk to keep of an earlier and a later chunk, by the preference order
Preferred(earlier, later) ==
    IF (earlier.chunk_type = "qa") # (later.chunk_type = "qa")
    THEN IF earlier.chunk_type = "qa" THEN earlier ELSE later
    ELSE IF MoreThanTenthLonger(earlier, later) THEN earlier
    ELSE IF MoreThanTenthLonger(later, earlier) THEN later
    ELSE IF MetadataKeys(earlier) > MetadataKeys(later) THEN earlier
    ELSE IF MetadataKeys(later) > MetadataKeys(earlier) THEN later
    ELSE earlier

\* the place in the input of the chunk with this id
InputIndex(chunk_id) == CHOOSE k \in 1..Len(dd.input) : dd.input[k].chunk_id = chunk_id

EarlierOf(pair) == dd.input[Min2(InputIndex(pair[1]), InputIndex(pair[2]))]
LaterOf(pair)   == dd.input[Max2(InputIndex(pair[1]), InputIndex(pair[2]))]

\* C27: when similarity dedup merges two chunks the one kept is chosen in the
\* order: a 'qa' chunk beats a non-qa chunk; else the chunk whose content is
\* more than 10% longer; else the chunk with more metadata keys; else the
\* earlier-indexed chunk; and the returned pair names the other as removed.
C27_KeptByPreferenceOrder ==
    dd.pc = "deduped" =>
        \A p \in 1..Len(dd.duplicates) :
            /\ dd.duplicates[p][1] # dd.duplicates[p][2]
            /\ dd.duplicates[p][2] = Preferred(EarlierOf(dd.duplicates[p]),
                                                LaterOf(dd.duplicates[p])).chunk_id

\* a merge of two chunks of the same type in which the removed chunk has
\* more metadata keys and the kept one, the later of the two, is more than
\* 10% longer
C27_Witness ==
    /\ dd.pc = "deduped"
    /\ \E p \in 1..Len(dd.duplicates) :
          /\ InputIndex(dd.duplicates[p][1]) < InputIndex(dd.duplicates[p][2])
          /\ EarlierOf(dd.duplicates[p]).chunk_type = LaterOf(dd.duplicates[p]).chunk_type
          /\ MetadataKeys(EarlierOf(dd.duplicates[p])) > MetadataKeys(LaterOf(dd.duplicates[p]))
          /\ MoreThanTenthLonger(LaterOf(dd.duplicates[p]), EarlierOf(dd.duplicates[p]))

\* C28: exact dedup partitions an input of pairwise-distinct chunk_ids: the
\* survivors are the input chunks themselves, unmodified and in the order of
\* the input; every input chunk that is no survivor is the removed element
\* of exactly one returned pair and no survivor is one; so
\* len(survivors) + len(removed pairs) = len(input).
C28_ExactDedupPartitions ==
    dd.pc = "deduped" =>
        /\ dd.chunks = SelectSeq(dd.input, LAMBDA c : c.chunk_id \in IdsOf(dd.chunks))
        /\ \A k \in 1..Len(dd.input) :
              Cardinality(PairsRemoving(dd.duplicates, dd.input[k].chunk_id))
                  = IF dd.input[k].chunk_id \in IdsOf(dd.chunks) THEN 0 ELSE 1
        /\ \A p \in 1..Len(dd.duplicates) : dd.duplicates[p][1] \in IdsOf(dd.input)
        /\ Len(dd.chunks) + Len(dd.duplicates) = Len(dd.input)

\* the third chunk, longer than the first and of its hash, replaced it, and
\* the second chunk, of another hash, stays ahead of the third
C28_Witness ==
    /\ dd.pc = "deduped"
    /\ Len(dd.input) = 3
    /\ dd.chunks = <<dd.input[2], dd.input[3]>>
    /\ dd.duplicates = <<<<dd.input[1].chunk_id, dd.input[3].chunk_id>>>>

\* the line, without the blanks around it, is part of the content of a chunk
LineKept(line, chunks) ==
    \E i \in 1..Len(chunks) : Contains(chunks[i].content, Strip(line), 0)

\* C29: chunk_markdown loses no text: every non-blank line of the input,
\* heading or body, appears in the content of a returned chunk, a heading
\* that is directly followed by another heading or by the end of the text
\* included.  Stated for the texts of at most max_chunk_size characters, in
\* which no line is too long for a chunk.
C29_MarkdownKeepsEveryLine ==
    (ck.pc = "returned" /\ ck.op = "markdown" /\ Len(ck.text) <= config.max_chunk_size) =>
        \A k \in 1..Len(SplitLines(ck.text)) :
            Strip(SplitLines(ck.text)[k]) # <<>> => LineKept(SplitLines(ck.text)[k], ck.chunks)

-----------------------------------------------------------------------------
(* The interview engine (core/interview_engine.py) over a question         *)
(* repository (services/question_service.py): JsonQuestionRepository       *)
(* ("json") or the vector-store QuestionRepository ("rag").  A Question is *)
(* known by its question_id; None is the empty tuple.  The vector store    *)
(* holds fewer chunks than a search asks for, so that every search returns *)
(* all of them.                                                            *)

MaxQuestions == 3
MaxPreloadCount == 2
MaxRefillThreshold == 2
MaxSessions == 2

\* the query terms of QuestionRepository.preload_questions and of its
\* _refill_question_pool
PreloadQueryTerms == 5
RefillQueryTerms == 4

NoQuestion == <<>>

Question(i) == [question_id |-> i]

\* the questions of the ids, in the order of the ids
QuestionsOf(ids) == SelectSeq([i \in 1..MaxQuestions |-> Question(i)], LAMBDA q : q.question_id \in ids)

InList(x, list) == \E k \in 1..Len(list) : list[k] = x

\* random.shuffle(questions) followed by questions[:count]
ShuffledHead(questions, count) ==
    LET n == IF count < Len(questions) THEN count ELSE Len(questions)
        picks == {f \in [1..n -> 1..Len(questions)] : \A a, b \in 1..n : a # b => f[a] # f[b]}
    IN  {[k \in 1..n |-> questions[f[k]]] : f \in picks}

\* [q for q in questions if q.question_id not in exclude_ids]
NotExcluded(questions, exclude_ids) == SelectSeq(questions, LAMBDA q : ~InList(q.question_id, exclude_ids))

\* the pool without the later copies of a question_id
RECURSIVE UniquePool(_)
UniquePool(pool) ==
    IF pool = <<>> THEN <<>>
    ELSE IF \E k \in 1..(Len(pool) - 1) : pool[k].question_id = pool[Len(pool)].question_id
         THEN UniquePool(SubSeq(pool, 1, Len(pool) - 1))
         ELSE Append(UniquePool(SubSeq(pool, 1, Len(pool) - 1)), pool[Len(pool)])

\* the results of one vector_store.search per query term, one after another
RECURSIVE SearchAll(_, _)
SearchAll(stored, terms) == IF terms = 0 THEN <<>> ELSE stored \o SearchAll(stored, terms - 1)

\* the questions preload_questions draws from: _all_questions, or the
\* results of the searches without their repeats
PreloadSource(kind, all_questions) ==
    IF kind = "json" THEN all_questions ELSE UniquePool(SearchAll(all_questions, PreloadQueryTerms))

\* preload_questions of either repository: the pools it can install, or the
\* exception it raises
PreloadQuestions(kind, all_questions, preload_count) ==
    IF PreloadSource(kind, all_questions) = <<>>
    THEN {[raised |-> "QuestionPoolEmptyException", question_pool |-> <<>>]}
    ELSE {[raised |-> "", question_pool |-> pool]
             : pool \in ShuffledHead(PreloadSource(kind, all_questions), preload_count)}

\* the outcomes of random.choice(available): the question returned (None
\* when nothing is available), the pool of the repository and the list the
\* pool was before _refill_question_pool rebound it
ChooseAvailable(question_pool, preloaded, exclude_ids) ==
    IF NotExcluded(question_pool, exclude_ids) = <<>>
    THEN {[question |-> NoQuestion, question_pool |-> question_pool, preloaded |-> preloaded]}
    ELSE {[question |-> NotExcluded(question_pool, exclude_ids)[k],
           question_pool |-> question_pool, preloaded |-> preloaded]
              : k \in 1..Len(NotExcluded(question_pool, exclude_ids))}

\* JsonQuestionRepository._refill_question_pool: the list of the pool is
\* extended in place, then the pool is rebound to its list without repeats
RefillJson(all_questions, preload_count, question_pool, exclude_ids) ==
    {[question_pool |-> UniquePool(question_pool \o more), preloaded |-> question_pool \o more]
        : more \in ShuffledHead(NotExcluded(all_questions, exclude_ids), preload_count)}

\* QuestionRepository._refill_question_pool: every search result that is
\* not excluded and was not in the pool before the refill is appended
NewQuestions(all_questions, question_pool, exclude_ids) ==
    SelectSeq(NotExcluded(SearchAll(all_questions, RefillQueryTerms), exclude_ids),
              LAMBDA q : \A k \in 1..Len(question_pool) : question_pool[k].question_id # q.question_id)

RefillRag(all_questions, question_pool, exclude_ids) ==
    {[question_pool |-> question_pool \o NewQuestions(all_questions, question_pool, exclude_ids),
      preloaded |-> question_pool \o NewQuestions(all_questions, question_pool, exclude_ids)]}

RefillQuestionPool(kind, all_questions, preload_count, question_pool, exclude_ids) ==
    IF kind = "json" THEN RefillJson(all_questions, preload_count, question_pool, exclude_ids)
    ELSE RefillRag(all_questions, question_pool, exclude_ids)

\* get_next_question of either repository
GetNextQuestion(repo, question_pool, exclude_ids) ==
    IF Len(NotExcluded(question_pool, exclude_ids)) < repo.refill_threshold
    THEN UNION {ChooseAvailable(r.question_pool, r.preloaded, exclude_ids)
                   : r \in RefillQuestionPool(repo.kind, repo.all_questions, repo.preload_count,
                                              question_pool, exclude_ids)}
    ELSE ChooseAvailable(question_pool, question_pool, exclude_ids)

\* InterviewSession as create_session builds it
NewSession ==
    [status |-> "idle", preloaded_questions |-> <<>>, asked_question_ids |-> <<>>,
     current_question |-> NoQuestion, saved_status |-> "idle"]

InitInterview ==
    /\ config = Idle /\ chunk_counter = 0
    /\ fs = Idle /\ ck = Idle /\ ps = Idle /\ dd = Idle /\ vl = Idle
    /\ \E kind \in {"json", "rag"}, ids \in SUBSET (1..MaxQuestions),
          preload_count \in 0..MaxPreloadCount, refill_threshold \in 0..MaxRefillThreshold :
          \* JsonQuestionRepository is not constructed without a question
          /\ kind = "json" => ids # {}
          /\ iv = [pc |-> "engine",
                kind |-> kind,
                all_questions |-> QuestionsOf(ids),
                preload_count |-> preload_count,
                refill_threshold |-> refill_threshold,
                question_pool |-> <<>>,
                active_sessions |-> <<>>,
                last |-> [op |-> "", session_id |-> 0, raised |-> ""]]

\* InterviewEngine.create_session; the session_id is the position of the
\* session in active_sessions
CreateSession(max_questions) ==
    /\ iv.pc = "engine"
    /\ Len(iv.active_sessions) < MaxSessions
    /\ IF max_questions <= 0
       THEN iv' = [iv EXCEPT !.last = [op |-> "create_session", session_id |-> 0,
                                       raised |-> "InvalidParameterException"]]
       ELSE iv' = [iv EXCEPT !.active_sessions = Append(@, NewSession),
                             !.last = [op |-> "create_session",
                                       session_id |-> Len(iv.active_sessions) + 1,
                                       raised |-> ""]]
    /\ UNCHANGED <<config, chunk_counter, fs, ck, ps, dd, vl>>

\* start_interview from its first question on: the session is already
\* IN_PROGRESS and saved when the question is asked for
StartWithQuestion(session_id, session, next) ==
    IF next.question = NoQuestion
    THEN iv' = [iv EXCEPT !.question_pool = next.question_pool,
                          !.active_sessions[session_id] =
                              [session EXCEPT !.status = "in_progress",
                                              !.saved_status = "in_progress",
                                              !.preloaded_questions = next.preloaded],
                          !.last = [op |-> "start_interview", session_id |-> session_id,
                                    raised |-> "QuestionPoolEmptyException"]]
    ELSE iv' = [iv EXCEPT !.question_pool = next.question_pool,
                          !.active_sessions[session_id] =
                              [session EXCEPT !.status = "in_progress",
                                              !.saved_status = "in_progress",
                                              !.preloaded_questions = next.preloaded,
                                              !.current_question = next.question,
                                              !.asked_question_ids =
                                                  IF InList(next.question.question_id, @) THEN @
                                                  ELSE Append(@, next.question.question_id)],
                          !.last = [op |-> "start_interview", session_id |-> session_id,
                                    raised |-> ""]]

\* InterviewEngine.start_interview
StartInterview(session_id) ==
    /\ iv.pc = "engine"
    /\ IF session_id > Len(iv.active_sessions)
       THEN iv' = [iv EXCEPT !.last = [op |-> "start_interview", session_id |-> session_id,
                                       raised |-> "SessionNotFoundException"]]
       ELSE IF iv.active_sessions[session_id].status # "idle"
       THEN iv' = [iv EXCEPT !.last = [op |-> "start_interview", session_id |-> session_id,
                                       raised |-> "InvalidParameterException"]]
       ELSE \E loaded \in PreloadQuestions(iv.kind, iv.all_questions, iv.preload_count) :
               IF loaded.raised # ""
               THEN iv' = [iv EXCEPT !.active_sessions[session_id].status = "idle",
                                     !.active_sessions[session_id].saved_status = "idle",
                                     !.last = [op |-> "start_interview", session_id |-> session_id,
                                               raised |-> loaded.raised]]
               ELSE \E next \in GetNextQuestion(iv, loaded.question_pool,
                                                iv.active_sessions[session_id].asked_question_ids) :
                       StartWithQuestion(session_id, iv.active_sessions[session_id], next)
    /\ UNCHANGED <<config, chunk_counter, fs, ck, ps, dd, vl>>

NextInterview ==
    \/ \E max_questions \in 0..1 : CreateSession(max_questions)
    \/ \E session_id \in 1..MaxSessions : StartInterview(session_id)

SpecInterview == InitInterview /\ [][NextInterview]_vars

\* the session the last start_interview call named, before and after it
StartedSession(engine) == engine.active_sessions[engine.last.session_id]

\* C30: when start_interview fails with QuestionPoolEmptyException the
\* session is back in status IDLE; start_interview leaves no session in
\* PREPARING or IN_PROGRESS without a current question; and start_interview
\* on a session that is not IDLE raises and changes neither the session nor
\* the question pool.
C30_StartInterviewFailsClean ==
    [][(iv'.last.op = "start_interview" /\ iv'.last.session_id <= Len(iv.active_sessions)) =>
          /\ iv'.last.raised = "QuestionPoolEmptyException" => StartedSession(iv').status = "idle"
          /\ StartedSession(iv').status \in {"preparing", "in_progress"}
                => StartedSession(iv').current_question # NoQuestion
          /\ iv.active_sessions[iv'.last.session_id].status # "idle"
                => /\ iv'.last.raised = "InvalidParameterException"
                   /\ iv'.active_sessions = iv.active_sessions
                   /\ iv'.question_pool = iv.question_pool]_vars

====
